---- MODULE Spec2Model ----
(***************************************************************************)
(* Model of the medkit text-annotation core: Span / ModifiedSpan,          *)
(* Attribute, the TextAnnotation hierarchy (Segment, Entity, Relation),    *)
(* the TextAnnotationContainer and TextDocument.                           *)
(*                                                                         *)
(* Python objects are records.  A keyword call f(a=1, b=2) is a record     *)
(* [a |-> 1, b |-> 2] handed to the operator that models f's signature;    *)
(* an operation that can raise returns [exc |-> <exception name>] or       *)
(* [exc |-> "none", val |-> <result>].                                     *)
(***************************************************************************)
EXTENDS Integers, Sequences, FiniteSets, TLC

VARIABLES
    doc,      \* the TextDocument object of the last constructor call
    anns,     \* the TextAnnotationContainer object (heap), or Unset
    held,     \* history: the annotations anns accepted, the raw segment first
    op,       \* the last call: [name, ...arguments]
    exc,      \* the exception the last call raised, "none" when it returned
    ret,      \* the value the last call returned
    issued,   \* identifiers generate_id() has handed out
    objs,     \* the attributes and annotations a caller holds, oldest first
    heap      \* the dicts and lists those objects refer to, by address

\* The objects a caller holds and the containers behind them.
memvars == <<objs, heap>>

vars == <<doc, anns, held, op, exc, ret, issued, objs, heap>>

---------------------------------------------------------------------------
(* Bounds of the model *)

MaxAnns == 2
MaxListLen == 2

\* Nested from_dict calls the interpreter allows before RecursionError.
MaxDepth == 3

\* Objects a caller keeps, and containers allocated, in one run.
MaxObjs == 2
MaxCells == 3

\* Length of the document texts, and size of the window extension, of the
\* span and snippet computations.
MaxTextLen == 4
MaxExtend == 4

\* Spans in a list given to normalize_spans.
MaxSpans == 3

\* Characters of a segment given to the syntagma tokenizer.
MaxSegmentLen == 5

---------------------------------------------------------------------------
(* Values *)

\* An attribute of an object that was never assigned, and a call with no result.
Unset == [unset |-> TRUE]

\* A Python dict with no keys.
EmptyDict == [k \in {} |-> "v"]

RAW_LABEL == "RAW_TEXT"

RECURSIVE SeqsUpTo(_, _)
SeqsUpTo(S, n) ==
    IF n = 0 THEN {<<>>}
    ELSE LET shorter == SeqsUpTo(S, n - 1)
         IN  shorter \cup {Append(s, x) : s \in shorter, x \in S}

\* Document texts, as sequences of characters; the empty text is one of them.
Texts == {<<>>, <<"a">>, <<"a", "b">>}

Labels == {RAW_LABEL, "X", "Y"}

\* Document identifiers a caller passes, and the pool generate_id() draws from.
DocIds == {"d1", "d2"}
GenPool == {"g1", "g2"}

Metadatas == {EmptyDict, [k \in {"src"} |-> "v"]}

---------------------------------------------------------------------------
(* medkit.core.text.span *)

Span(start, end) == [cls |-> "Span", start |-> start, end |-> end]

ModifiedSpan(length, replaced_spans) ==
    [cls |-> "ModifiedSpan", length |-> length, replaced_spans |-> replaced_spans]

---------------------------------------------------------------------------
(* medkit.core.id *)

\* generate_id(): an identifier never handed out before.
FreshIds == GenPool \ issued

\* random.Random(doc_id).getrandbits(128) formatted as a UUID: the generator
\* is private to the call and seeded with doc_id alone, so the result is a
\* fixed function of doc_id.
RawUidOf(doc_id) ==
    CASE doc_id = "d1" -> "r1"
      [] doc_id = "d2" -> "r2"
      [] doc_id = "g1" -> "r3"
      [] doc_id = "g2" -> "r4"

\* Identifiers of annotations: "r1" is also the raw-segment uid of document "d1".
AnnIds == {"a1", "a2", "r1"}

---------------------------------------------------------------------------
(* Keyword calls *)

Ok(v) == [exc |-> "none", val |-> v]
Raise(e) == [exc |-> e]

\* The value bound to a parameter: the keyword given, else the default.
Arg(kw, name, default) == IF name \in DOMAIN kw THEN kw[name] ELSE default

---------------------------------------------------------------------------
(* medkit.core.text.span_utils *)

Min2(a, b) == IF a <= b THEN a ELSE b
Max2(a, b) == IF a >= b THEN a ELSE b

\* text[a:b] for 0 <= a, 0 <= b: empty when b <= a, cut at the end of text.
Slice(text, a, b) == SubSeq(text, a + 1, Min2(b, Len(text)))

RECURSIVE NormalizeInto(_, _)
NormalizeInto(done, rest) ==
    IF rest = <<>> THEN done
    ELSE LET s == Head(rest)
             n == Len(done)
         IN  IF n > 0 /\ done[n].cls = "Span" /\ s.cls = "Span"
                      /\ done[n].end = s.start
             THEN NormalizeInto([done EXCEPT ![n] = Span(done[n].start, s.end)],
                                Tail(rest))
             ELSE NormalizeInto(Append(done, s), Tail(rest))

\* Mutant of NormalizeSpans: one pass over the pairs of the input; a span that
\* was merged is not compared with the span after it.
RECURSIVE NormalizePairs(_)
NormalizePairs(spans) ==
    IF Len(spans) < 2 THEN spans
    ELSE IF spans[1].cls = "Span" /\ spans[2].cls = "Span"
            /\ spans[1].end = spans[2].start
    THEN <<Span(spans[1].start, spans[2].end)>> \o NormalizePairs(Tail(Tail(spans)))
    ELSE <<spans[1]>> \o NormalizePairs(Tail(spans))

\* Mutant of NormalizeSpans: a plain Span is also merged into the plain Span
\* before it when the two overlap.
RECURSIVE NormalizeOverlapping(_)
NormalizeOverlapping(spans) ==
    IF Len(spans) < 2 THEN spans
    ELSE IF spans[1].cls = "Span" /\ spans[2].cls = "Span"
            /\ spans[1].start <= spans[2].start /\ spans[2].start <= spans[1].end
    THEN NormalizeOverlapping(<<Span(spans[1].start, Max2(spans[1].end, spans[2].end))>>
                              \o Tail(Tail(spans)))
    ELSE <<spans[1]>> \o NormalizeOverlapping(Tail(spans))

\* normalize_spans(spans): a plain Span that starts where the plain Span
\* before it ends is merged into it; a ModifiedSpan stays as it is.
NormalizeSpans(spans) == NormalizeInto(<<>>, spans)

\* span.length: end - start of a Span, the length field of a ModifiedSpan.
SpanLength(s) == IF s.cls = "Span" THEN s.end - s.start ELSE s.length

\* Mutant of Clip: the fragment of a Span starts where the Span starts,
\* whatever the offset of the range in it.
ClipFromSpanStart(s, from, to) ==
    IF s.cls = "Span"
    THEN Span(s.start, s.start + (to - from))
    ELSE ModifiedSpan(to - from, s.replaced_spans)

\* Mutant of Clip: the fragment of a ModifiedSpan is a plain Span over the
\* range of the original its replaced spans begin at.
ClipModifiedToSpan(s, from, to) ==
    IF s.cls = "Span"
    THEN Span(s.start + from, s.start + to)
    ELSE IF s.replaced_spans = <<>>
    THEN Span(from, to)
    ELSE Span(s.replaced_spans[1].start + from, s.replaced_spans[1].start + to)

\* The part of span s that covers its characters from..to (offsets in the
\* text of s): a Span is cut to the offsets, a ModifiedSpan keeps its
\* replaced spans and gets the length of the part.
Clip(s, from, to) ==
    IF s.cls = "Span"
    THEN Span(s.start + from, s.start + to)
    ELSE ModifiedSpan(to - from, s.replaced_spans)

\* The fragments of spans that cover text[range_start:range_end], cur being
\* the offset in the text at which the first of spans begins.
RECURSIVE ExtractInSpans(_, _, _, _)
ExtractInSpans(spans, cur, range_start, range_end) ==
    IF spans = <<>> THEN <<>>
    ELSE LET s == Head(spans)
             next == cur + SpanLength(s)
             lo == Max2(range_start, cur)
             hi == Min2(range_end, next)
         IN  (IF lo < hi THEN <<Clip(s, lo - cur, hi - cur)>> ELSE <<>>)
             \o ExtractInSpans(Tail(spans), next, range_start, range_end)

\* The text and spans of each range, one after the other in request order.
RECURSIVE ExtractRanges(_, _, _)
ExtractRanges(text, spans, ranges) ==
    IF ranges = <<>> THEN [text |-> <<>>, spans |-> <<>>]
    ELSE LET r == Head(ranges)
             rest == ExtractRanges(text, spans, Tail(ranges))
         IN  [text |-> Slice(text, r[1], r[2]) \o rest.text,
              spans |-> ExtractInSpans(spans, 0, r[1], r[2]) \o rest.spans]

\* Mutant of Extract: an empty range contributes no text and no span.
ExtractSkippingEmpty(text, spans, ranges) ==
    IF \E i \in 1..Len(ranges) : ranges[i][1] > ranges[i][2]
    THEN Raise("ValueError")
    ELSE Ok(ExtractRanges(text, spans, ranges))

\* span_utils.extract(text, spans, ranges): a range that is empty is
\* rejected, whatever the other ranges are.
Extract(text, spans, ranges) ==
    IF \E i \in 1..Len(ranges) : ranges[i][1] >= ranges[i][2]
    THEN Raise("ValueError")
    ELSE Ok(ExtractRanges(text, spans, ranges))

---------------------------------------------------------------------------
(* medkit.core.annotation / medkit.core.text.annotation *)

\* Annotation.__init__(label, attrs=None, ann_id=None, metadata=None)
AnnotationInit(cls, label, attrs, ann_id, metadata) ==
    [cls |-> cls, uid |-> ann_id, label |-> label, attrs |-> attrs,
     metadata |-> metadata]

SegmentParams == {"label", "spans", "text", "attrs", "ann_id", "metadata"}

\* Segment(**kw); fresh is the identifier generate_id() returns when asked.
SegmentInit(kw, fresh) ==
    IF ~(DOMAIN kw \subseteq SegmentParams)
           \/ ~({"label", "spans", "text"} \subseteq DOMAIN kw)
    THEN Raise("TypeError")
    ELSE LET base == AnnotationInit("Segment", kw.label, Arg(kw, "attrs", <<>>),
                                    Arg(kw, "ann_id", fresh),
                                    Arg(kw, "metadata", EmptyDict))
         IN  Ok([cls |-> base.cls, uid |-> base.uid, label |-> base.label,
                 attrs |-> base.attrs, metadata |-> base.metadata,
                 spans |-> kw.spans, text |-> kw.text])

EntityParams == {"label", "spans", "text", "attrs", "entity_id", "metadata"}

\* Entity(**kw)
EntityInit(kw, fresh) ==
    IF ~(DOMAIN kw \subseteq EntityParams)
           \/ ~({"label", "spans", "text"} \subseteq DOMAIN kw)
    THEN Raise("TypeError")
    ELSE LET seg == SegmentInit([label |-> kw.label, spans |-> kw.spans,
                                 text |-> kw.text,
                                 attrs |-> Arg(kw, "attrs", <<>>),
                                 ann_id |-> Arg(kw, "entity_id", fresh),
                                 metadata |-> Arg(kw, "metadata", EmptyDict)],
                                fresh)
         IN  Ok([seg.val EXCEPT !.cls = "Entity"])

RelationParams == {"label", "source_id", "target_id", "attrs", "rel_id", "metadata"}

\* Relation(**kw)
RelationInit(kw, fresh) ==
    IF ~(DOMAIN kw \subseteq RelationParams)
           \/ ~({"label", "source_id", "target_id"} \subseteq DOMAIN kw)
    THEN Raise("TypeError")
    ELSE LET base == AnnotationInit("Relation", kw.label, Arg(kw, "attrs", <<>>),
                                    Arg(kw, "rel_id", fresh),
                                    Arg(kw, "metadata", EmptyDict))
         IN  Ok([cls |-> base.cls, uid |-> base.uid, label |-> base.label,
                 attrs |-> base.attrs, metadata |-> base.metadata,
                 source_id |-> kw.source_id, target_id |-> kw.target_id])

---------------------------------------------------------------------------
(* medkit.core.attribute *)

\* Attribute(label, value, metadata, uid)
AttributeInit(label, value, metadata, uid) ==
    [cls |-> "Attribute", uid |-> uid, label |-> label, value |-> value,
     metadata |-> metadata]

\* Attribute.to_dict()
AttributeToDict(a) ==
    [uid |-> a.uid, label |-> a.label, value |-> a.value,
     metadata |-> a.metadata, class_name |-> a.cls]

\* Attribute.from_dict(attribute_dict) on the base class, no subclass named.
AttributeFromDict(d) == AttributeInit(d.label, d.value, d.metadata, d.uid)

---------------------------------------------------------------------------
(* medkit.core.dict_conv, and classes defined over the base types *)

\* Subclasses a caller defines: the Own ones define from_dict in their body,
\* the Plain ones inherit it.  "Unknown" names no class of the program.
AttributeSubclasses == {"OwnAttribute", "PlainAttribute"}
DocumentSubclasses == {"OwnDocument", "PlainDocument"}

\* SubclassMapping.register_subclass(subclass)
RegisterSubclass(registry, cls) == registry \cup {cls}

\* Attribute.__init_subclass__ has run once for each subclass defined.
AttributeRegistry ==
    RegisterSubclass(RegisterSubclass({}, "OwnAttribute"), "PlainAttribute")

\* TextDocument.__init_subclass__ has run once for each subclass defined.
DocumentRegistry ==
    RegisterSubclass(RegisterSubclass({}, "OwnDocument"), "PlainDocument")

\* SubclassMapping.get_subclass_for_data_dict(data_dict): the registered
\* class the mapping names, None for the base name and for an unknown name.
GetSubclassForDataDict(registry, data_dict) ==
    IF data_dict.class_name \in registry THEN data_dict.class_name ELSE "None"

\* The class whose body holds the from_dict that cls.from_dict resolves to.
FromDictOf(cls) ==
    CASE cls \in {"Attribute", "PlainAttribute"} -> "Attribute"
      [] cls \in {"TextDocument", "PlainDocument"} -> "TextDocument"
      [] OTHER -> cls

\* dict_conv.has_same_from_dict(class_1, class_2)
HasSameFromDict(class_1, class_2) == FromDictOf(class_1) = FromDictOf(class_2)

\* The from_dict a subclass defines in its own body: it builds an instance
\* of the subclass from the fields of the mapping.
OwnAttributeFromDict(cls, d, depth) ==
    [exc |-> "none", dispatches |-> depth,
     val |-> [AttributeInit(d.label, d.value, d.metadata, d.uid) EXCEPT !.cls = cls]]

RECURSIVE AttributeFromDictOn(_, _, _)

\* cls.from_dict(d) for a class of the Attribute family: the method the
\* class defines, else the one it inherits from Attribute.
AttributeClsFromDict(cls, d, depth) ==
    IF FromDictOf(cls) = "Attribute"
    THEN AttributeFromDictOn(cls, d, depth)
    ELSE OwnAttributeFromDict(cls, d, depth)

\* Attribute.from_dict(attribute_dict) running with the given cls, depth
\* calls deep: a registered name is dispatched to, whatever class is calling.
AttributeFromDictOn(cls, d, depth) ==
    IF depth > MaxDepth
    THEN [exc |-> "RecursionError", dispatches |-> depth]
    ELSE LET subclass == GetSubclassForDataDict(AttributeRegistry, d)
         IN  IF subclass # "None"
             THEN AttributeClsFromDict(subclass, d, depth + 1)
             ELSE [exc |-> "none", dispatches |-> depth,
                   val |-> [AttributeInit(d.label, d.value, d.metadata, d.uid)
                              EXCEPT !.cls = cls]]

---------------------------------------------------------------------------
(* Serialization of annotations *)

\* s.to_dict() for s in self.spans: Span is a NamedTuple with start, end and
\* length, ModifiedSpan a dataclass with length and replaced_spans; neither
\* class defines to_dict, so the attribute lookup fails.
SpanMethods(s) == IF s.cls = "Span" THEN {"length"} ELSE {}

SpanToDict(s) ==
    IF "to_dict" \in SpanMethods(s)
    THEN Ok([k \in DOMAIN s \ {"cls"} |-> s[k]])
    ELSE Raise("AttributeError")

\* Annotation.to_dict(): the fields common to every annotation, with the
\* class name.
AnnotationToDict(x) ==
    [class_name |-> x.cls, uid |-> x.uid, label |-> x.label,
     attrs |-> [i \in 1..Len(x.attrs) |-> AttributeToDict(x.attrs[i])],
     metadata |-> x.metadata]

\* Segment.to_dict() (Entity inherits it)
SegmentToDict(x) ==
    LET data == AnnotationToDict(x)
        spans == [i \in 1..Len(x.spans) |-> SpanToDict(x.spans[i])]
    IN  IF \E i \in 1..Len(spans) : spans[i].exc # "none"
        THEN Raise("AttributeError")
        ELSE Ok(data @@ [spans |-> [i \in 1..Len(spans) |-> spans[i].val],
                         text |-> x.text])

\* Relation.to_dict()
RelationToDict(x) ==
    Ok(AnnotationToDict(x) @@ [source_id |-> x.source_id, target_id |-> x.target_id])

\* x.to_dict(), by the class of x
ToDict(x) == IF x.cls = "Relation" THEN RelationToDict(x) ELSE SegmentToDict(x)

\* A span of the serialized form: {start, end} or {length, replaced_spans}.
SpanFromDict(d) ==
    IF "start" \in DOMAIN d
    THEN Span(d.start, d.end)
    ELSE ModifiedSpan(d.length,
                      [i \in 1..Len(d.replaced_spans) |->
                         Span(d.replaced_spans[i].start, d.replaced_spans[i].end)])

\* TextAnnotation.from_dict(data): the class the mapping names rebuilds the
\* annotation with its own constructor; a name that is not registered gives
\* a base annotation of the common fields.
TextAnnotationFromDict(d) ==
    LET attrs == [i \in 1..Len(d.attrs) |-> AttributeFromDict(d.attrs[i])]
    IN  CASE d.class_name = "Segment" ->
               SegmentInit([label |-> d.label,
                            spans |-> [i \in 1..Len(d.spans) |-> SpanFromDict(d.spans[i])],
                            text |-> d.text, attrs |-> attrs, ann_id |-> d.uid,
                            metadata |-> d.metadata], d.uid)
          [] d.class_name = "Entity" ->
               EntityInit([label |-> d.label,
                           spans |-> [i \in 1..Len(d.spans) |-> SpanFromDict(d.spans[i])],
                           text |-> d.text, attrs |-> attrs, entity_id |-> d.uid,
                           metadata |-> d.metadata], d.uid)
          [] d.class_name = "Relation" ->
               RelationInit([label |-> d.label, source_id |-> d.source_id,
                             target_id |-> d.target_id, attrs |-> attrs,
                             rel_id |-> d.uid, metadata |-> d.metadata], d.uid)
          [] OTHER ->
               Ok(AnnotationInit("TextAnnotation", d.label, attrs, d.uid, d.metadata))

\* Mutant of GetSnippet: the part of the budget left unused before the
\* segment is not added after it.
GetSnippetNoReallocation(spans, text, max_extend_length) ==
    LET spans_normalized == NormalizeSpans(spans)
        idx == 1..Len(spans_normalized)
    IN  IF \E i \in idx : spans_normalized[i].cls # "Span"
        THEN Raise("AttributeError")
        ELSE IF spans_normalized = <<>>
        THEN Raise("ValueError")
        ELSE LET start == CHOOSE x \in {spans_normalized[i].start : i \in idx} :
                             \A i \in idx : x <= spans_normalized[i].start
                 end == CHOOSE x \in {spans_normalized[i].end : i \in idx} :
                           \A i \in idx : x >= spans_normalized[i].end
                 start_extended == Max2(start - (max_extend_length \div 2), 0)
                 end_extended ==
                     Min2(end + (max_extend_length - (max_extend_length \div 2)),
                          Len(text))
             IN  Ok(Slice(text, start_extended, end_extended))

\* Mutant of GetSnippet: the whole budget is given to each side.
GetSnippetBudgetOnEachSide(spans, text, max_extend_length) ==
    LET spans_normalized == NormalizeSpans(spans)
        idx == 1..Len(spans_normalized)
    IN  IF \E i \in idx : spans_normalized[i].cls # "Span"
        THEN Raise("AttributeError")
        ELSE IF spans_normalized = <<>>
        THEN Raise("ValueError")
        ELSE LET start == CHOOSE x \in {spans_normalized[i].start : i \in idx} :
                             \A i \in idx : x <= spans_normalized[i].start
                 end == CHOOSE x \in {spans_normalized[i].end : i \in idx} :
                           \A i \in idx : x >= spans_normalized[i].end
                 start_extended == Max2(start - max_extend_length, 0)
                 end_extended == Min2(end + max_extend_length, Len(text))
             IN  Ok(Slice(text, start_extended, end_extended))

\* Segment.get_snippet(doc, max_extend_length), text being doc.text: start
\* and end are read from every normalized span, min and max need one.
GetSnippet(spans, text, max_extend_length) ==
    LET spans_normalized == NormalizeSpans(spans)
        idx == 1..Len(spans_normalized)
    IN  IF \E i \in idx : spans_normalized[i].cls # "Span"
        THEN Raise("AttributeError")
        ELSE IF spans_normalized = <<>>
        THEN Raise("ValueError")
        ELSE LET start == CHOOSE x \in {spans_normalized[i].start : i \in idx} :
                             \A i \in idx : x <= spans_normalized[i].start
                 end == CHOOSE x \in {spans_normalized[i].end : i \in idx} :
                           \A i \in idx : x >= spans_normalized[i].end
                 start_extended == Max2(start - (max_extend_length \div 2), 0)
                 remaining_max_extend_length ==
                     max_extend_length - (start - start_extended)
                 end_extended == Min2(end + remaining_max_extend_length, Len(text))
             IN  Ok(Slice(text, start_extended, end_extended))

---------------------------------------------------------------------------
(* medkit.core.text.annotation_container *)

\* TextAnnotationContainer(doc_id, raw_segment): the raw segment is injected
\* at construction.  by_id with ids (its key order) is the uid map, by_label
\* the label index.
ContainerNew(doc_id, raw_segment) ==
    [doc_id |-> doc_id,
     ids |-> <<raw_segment.uid>>,
     by_id |-> (raw_segment.uid :> raw_segment),
     by_label |-> (raw_segment.label :> <<raw_segment.uid>>)]

\* Mutant of ContainerAdd: the uid is put at the front of its label's index.
ContainerAddPrepend(c, ann) ==
    IF ann.uid \in DOMAIN c.by_id
    THEN Raise("DuplicateIdError")
    ELSE Ok([c EXCEPT
               !.ids = Append(@, ann.uid),
               !.by_id = (ann.uid :> ann) @@ @,
               !.by_label = (ann.label :>
                               (<<ann.uid>> \o (IF ann.label \in DOMAIN @
                                                THEN @[ann.label] ELSE <<>>))) @@ @])

\* Mutant of ContainerAdd: a relation is accepted only when the container
\* holds both of its endpoints.
ContainerAddResolving(c, ann) ==
    IF ann.uid \in DOMAIN c.by_id
    THEN Raise("DuplicateIdError")
    ELSE IF ann.cls = "Relation"
            /\ ~({ann.source_id, ann.target_id} \subseteq DOMAIN c.by_id)
    THEN Raise("NotFoundError")
    ELSE Ok([c EXCEPT
               !.ids = Append(@, ann.uid),
               !.by_id = (ann.uid :> ann) @@ @,
               !.by_label = (ann.label :>
                               Append(IF ann.label \in DOMAIN @ THEN @[ann.label]
                                      ELSE <<>>, ann.uid)) @@ @])

\* container.add(ann)
ContainerAdd(c, ann) ==
    IF ann.uid \in DOMAIN c.by_id
    THEN Raise("DuplicateIdError")
    ELSE Ok([c EXCEPT
               !.ids = Append(@, ann.uid),
               !.by_id = (ann.uid :> ann) @@ @,
               !.by_label = (ann.label :>
                               Append(IF ann.label \in DOMAIN @ THEN @[ann.label]
                                      ELSE <<>>, ann.uid)) @@ @])

\* Mutant of ContainerGetById: an absent uid yields no annotation instead of
\* an error, as a plain mapping lookup with a default would.
ContainerGetByIdOrNone(c, uid) ==
    IF uid \in DOMAIN c.by_id THEN Ok(c.by_id[uid]) ELSE Ok(Unset)

\* container.get_by_id(uid)
ContainerGetById(c, uid) ==
    IF uid \in DOMAIN c.by_id THEN Ok(c.by_id[uid]) ELSE Raise("NotFoundError")

\* container.get(label=label): the annotations of the label index, in order.
ContainerGetByLabel(c, label) ==
    IF label \in DOMAIN c.by_label
    THEN [i \in 1..Len(c.by_label[label]) |-> c.by_id[c.by_label[label][i]]]
    ELSE <<>>

\* container.get() with no filter, and iteration over the container.
ContainerGetAll(c) == [i \in 1..Len(c.ids) |-> c.by_id[c.ids[i]]]

\* for ann in anns: container.add(ann) -- stops at the first add that raises.
RECURSIVE AddAll(_, _)
AddAll(c, list) ==
    IF list = <<>> THEN Ok(c)
    ELSE LET r == ContainerAdd(c, Head(list))
         IN  IF r.exc # "none" THEN r ELSE AddAll(r.val, Tail(list))

---------------------------------------------------------------------------
(* medkit.core.text.document *)

\* spans=[Span(0, len(text))], evaluated before Segment is called.
RawSegmentSpans(text) == <<Span(0, Len(text))>>

\* TextDocument._generate_raw_segment(text, doc_id)
GenerateRawSegment(text, doc_id) ==
    LET uid == RawUidOf(doc_id)
    IN  SegmentInit([label |-> RAW_LABEL,
                     spans |-> RawSegmentSpans(text),
                     text |-> text,
                     uid |-> uid], uid)

\* TextDocument.__init__(text, anns, metadata, uid), uid already defaulted.
\* Returns the object's fields as far as they were assigned, the container
\* it built and the exception that ended the call.
TextDocumentInit(text, annlist, metadata, uid) ==
    LET raw == GenerateRawSegment(text, uid)
        obj == [uid |-> uid, metadata |-> metadata,
                raw_segment |-> Unset, anns |-> Unset]
    IN  IF raw.exc # "none"
        THEN [exc |-> raw.exc, obj |-> obj, container |-> Unset]
        ELSE LET c == ContainerNew(uid, raw.val)
                 filled == AddAll(c, annlist)
                 obj2 == [obj EXCEPT !.raw_segment = raw.val]
             IN  IF filled.exc # "none"
                 THEN [exc |-> filled.exc, obj |-> obj2, container |-> Unset]
                 ELSE [exc |-> "none",
                       obj |-> [obj2 EXCEPT !.anns = [ref |-> "anns"]],
                       container |-> filled.val]

\* TextDocument.text
DocText(d) ==
    IF d.raw_segment = Unset THEN Raise("AttributeError") ELSE Ok(d.raw_segment.text)

\* [TextAnnotation.from_dict(a) for a in dicts]: the first failure ends it.
RECURSIVE AnnsFromDicts(_)
AnnsFromDicts(dicts) ==
    IF dicts = <<>> THEN Ok(<<>>)
    ELSE LET a == TextAnnotationFromDict(Head(dicts))
             rest == AnnsFromDicts(Tail(dicts))
         IN  IF a.exc # "none" THEN a
             ELSE IF rest.exc # "none" THEN rest
             ELSE Ok(<<a.val>> \o rest.val)

\* TextDocument.from_dict(doc_dict) called on TextDocument itself: cls has the
\* base from_dict, so no subclass is looked up.
TextDocumentFromDict(doc_dict) ==
    LET parsed == AnnsFromDicts(Arg(doc_dict, "anns", <<>>))
    IN  IF parsed.exc # "none"
        THEN [exc |-> parsed.exc, obj |-> Unset, container |-> Unset]
        ELSE TextDocumentInit(doc_dict.text, parsed.val, doc_dict.metadata,
                              doc_dict.uid)

\* The from_dict a TextDocument subclass defines in its own body: it builds
\* the subclass instance through the constructor it inherits.
OwnDocumentFromDict(cls, doc_dict, depth) ==
    [cls |-> cls, dispatches |-> depth] @@ TextDocumentFromDict(doc_dict)

RECURSIVE TextDocumentFromDictOn(_, _, _)

\* cls.from_dict(doc_dict) for a class of the TextDocument family.
DocumentClsFromDict(cls, doc_dict, depth) ==
    IF FromDictOf(cls) = "TextDocument"
    THEN TextDocumentFromDictOn(cls, doc_dict, depth)
    ELSE OwnDocumentFromDict(cls, doc_dict, depth)

\* TextDocument.from_dict(doc_dict) running with the given cls: a subclass is
\* looked up only when cls.from_dict is not the one of TextDocument.
TextDocumentFromDictOn(cls, doc_dict, depth) ==
    IF depth > MaxDepth
    THEN [cls |-> cls, dispatches |-> depth, exc |-> "RecursionError",
          obj |-> Unset, container |-> Unset]
    ELSE LET subclass == IF ~HasSameFromDict(cls, "TextDocument")
                         THEN GetSubclassForDataDict(DocumentRegistry, doc_dict)
                         ELSE "None"
         IN  IF subclass # "None"
             THEN DocumentClsFromDict(subclass, doc_dict, depth + 1)
             ELSE [cls |-> cls, dispatches |-> depth]
                  @@ TextDocumentFromDict(doc_dict)

---------------------------------------------------------------------------
(* Inputs *)

OneSpan == <<Span(0, 1)>>
OneText == <<"a">>

Seg(l, u) ==
    SegmentInit([label |-> l, spans |-> OneSpan, text |-> OneText, ann_id |-> u], u).val

Ent(l, u) ==
    EntityInit([label |-> l, spans |-> OneSpan, text |-> OneText, entity_id |-> u], u).val

Rel(l, u, s, t) ==
    RelationInit([label |-> l, source_id |-> s, target_id |-> t, rel_id |-> u], u).val

\* Annotations handed to add(): several share a uid, several share a label,
\* one carries the reserved label, one the raw-segment uid of document "d1".
AnnPool ==
    {Seg(RAW_LABEL, "a1"), Seg("X", "a1"), Seg("X", "a2"), Ent("X", "a2"),
     Ent("Y", "r1"), Rel("Y", "a2", "a1", "zz"), Rel("X", "a1", "a2", "r1")}

\* Annotations handed to the TextDocument constructor in its anns list.
ListPool == {Seg("X", "a1"), Ent("Y", "a1")}

AnnLists == SeqsUpTo(ListPool, MaxListLen)

Attr1 == AttributeInit("negated", "true", EmptyDict, "t1")

SpansPool ==
    {<<>>, OneSpan, <<ModifiedSpan(1, <<Span(0, 2)>>)>>,
     <<Span(0, 1), ModifiedSpan(1, <<>>)>>}

\* Annotations of every variant, serialized and rebuilt.
RoundTripPool ==
    {SegmentInit([label |-> "X", spans |-> sp, text |-> OneText, attrs |-> at,
                  ann_id |-> "a1", metadata |-> m], "a1").val :
        sp \in SpansPool, at \in {<<>>, <<Attr1>>}, m \in Metadatas}
    \cup
    {EntityInit([label |-> "Y", spans |-> sp, text |-> OneText, attrs |-> at,
                 entity_id |-> "a2"], "a2").val :
        sp \in SpansPool, at \in {<<>>, <<Attr1>>}}
    \cup
    {RelationInit([label |-> "X", source_id |-> "a1", target_id |-> "a2",
                   attrs |-> at, rel_id |-> "a1", metadata |-> m], "a1").val :
        at \in {<<>>, <<Attr1>>}, m \in Metadatas}

\* Serialized annotations, in the form of the external interface.
SegmentDict(cls, uid, label, text, start, end) ==
    [class_name |-> cls, uid |-> uid, label |-> label, attrs |-> <<>>,
     metadata |-> EmptyDict, spans |-> <<[start |-> start, end |-> end]>>,
     text |-> text]

\* What iterating a document's annotations has to serialize: the raw segment
\* of the document and one entity.
AnnDictLists(uid, text) ==
    LET raw == SegmentDict("Segment", RawUidOf(uid), RAW_LABEL, text, 0, Len(text))
        one == SegmentDict("Entity", "a1", "X", OneText, 0, 1)
    IN  {<<>>, <<raw>>, <<one>>, <<raw, one>>}

\* Serialized documents: the shallow form has no anns key.
DocDicts ==
    {[class_name |-> "TextDocument", uid |-> u, text |-> t, metadata |-> m] :
        u \in DocIds, t \in Texts, m \in Metadatas}
    \cup
    UNION {{[class_name |-> "TextDocument", uid |-> u, text |-> t,
             metadata |-> m, anns |-> l] : l \in AnnDictLists(u, t)} :
           u \in DocIds, t \in Texts, m \in Metadatas}

\* Attributes of the base class and of each subclass.
AttrPool ==
    {[AttributeInit("negated", v, m, "t1") EXCEPT !.cls = c] :
        v \in {"true", "None"}, m \in Metadatas,
        c \in {"Attribute"} \cup AttributeSubclasses}

\* Serialized attributes: what to_dict emits, and the same mappings under a
\* class name that was never registered.
AttrDicts ==
    {AttributeToDict(a) : a \in AttrPool}
    \cup {[AttributeToDict(a) EXCEPT !.class_name = "Unknown"] : a \in AttrPool}

\* Serialized documents of the subclasses and of a class never registered.
SubDocDicts ==
    {[class_name |-> c, uid |-> u, text |-> t, metadata |-> m] :
        c \in DocumentSubclasses \cup {"Unknown"},
        u \in DocIds, t \in Texts, m \in Metadatas}

\* Serialized annotations, two of them under a class name never registered.
AnnDicts ==
    {SegmentDict(c, "a1", "X", OneText, 0, 1) :
        c \in {"Segment", "Entity", "Unknown"}}
    \cup
    {[class_name |-> c, uid |-> "a2", label |-> "Y", attrs |-> <<AttributeToDict(Attr1)>>,
      metadata |-> m, source_id |-> "a1", target_id |-> "zz"] :
        c \in {"Relation", "Unknown"}, m \in Metadatas}

\* Characters of the document texts of the span computations: no two equal,
\* so that a slice shows where it was cut.
Alphabet == <<"a", "b", "c", "d", "e", "f", "g", "h">>

TextOfLen(n) == SubSeq(Alphabet, 1, n)

\* Span lists of segments: every single plain Span up to MaxTextLen, two
\* contiguous Spans, two Spans with a gap, two Spans out of order, a
\* ModifiedSpan, and no span at all.
SnippetSpans ==
    {<<Span(x[1], x[2])>> :
        x \in {y \in (0..MaxTextLen) \X (1..MaxTextLen) : y[1] < y[2]}}
    \cup {<<Span(0, 1), Span(1, 2)>>, <<Span(1, 2), Span(3, 4)>>,
          <<Span(2, 3), Span(0, 1)>>, <<ModifiedSpan(1, <<Span(0, 2)>>)>>,
          <<Span(0, 1), ModifiedSpan(1, <<Span(1, 3)>>)>>, <<>>}

\* The text of the example of the span algebra.
TheCatSat == <<"T", "h", "e", " ", "c", "a", "t", " ", "s", "a", "t", ".">>

\* Segments ranges are extracted from: the raw segment of each document
\* text, the one of the example, and a segment with a ModifiedSpan.
ExtractSegments ==
    {[text |-> TextOfLen(n), spans |-> <<Span(0, n)>>] : n \in 0..MaxTextLen}
    \cup {[text |-> TheCatSat, spans |-> <<Span(0, Len(TheCatSat))>>],
          [text |-> TextOfLen(3),
           spans |-> <<Span(0, 1), ModifiedSpan(1, <<Span(1, 4)>>), Span(4, 5)>>],
          [text |-> TextOfLen(4),
           spans |-> <<Span(2, 3), ModifiedSpan(3, <<Span(3, 4), Span(6, 8)>>)>>]}

\* Requested ranges: the empty ones among them.
\* Span lists given to normalize_spans: plain Spans in any order, contiguous,
\* apart or overlapping, mixed with ModifiedSpans.
NormalizeInputs ==
    SeqsUpTo({Span(y[1], y[2]) : y \in {z \in (0..MaxTextLen) \X (1..MaxTextLen) : z[1] < z[2]}}
             \cup {ModifiedSpan(1, <<Span(1, 4)>>), ModifiedSpan(3, <<>>)},
             MaxSpans)

RangePool ==
    {y \in (0..MaxTextLen) \X (0..MaxTextLen) : y[1] <= y[2]} \cup {<<4, 7>>}

RangeLists == SeqsUpTo(RangePool, MaxListLen) \ {<<>>}

---------------------------------------------------------------------------
(* Objects and the containers they refer to *)

\* An argument left out of a call.
None == [none |-> TRUE]

\* A reference to the container at an address, and a value that is none.
Ref(n) == [ref |-> n]
Scalar(v) == [scalar |-> v]
IsRef(x) == "ref" \in DOMAIN x

\* A new dict ({}) and a new list ([]).
DictCell == [type |-> "dict", content |-> EmptyDict]
ListCell == [type |-> "list", content |-> <<>>]

\* The heap with one more container; its address is the new length.
Alloc(h, cell) == Append(h, cell)

\* References to the dicts / lists allocated so far.
RefsOf(h, type) == {Ref(n) : n \in {k \in 1..Len(h) : h[k].type = type}}

\* What a field holds: the content behind a reference, else the value.
Deref(h, x) == IF IsRef(x) THEN h[x.ref].content ELSE x

\* Mutant of HeapAttributeInit: the dict of the default is made once and
\* every call that leaves metadata out gets that same dict.
HeapAttributeInitSharedDefault(h, label, value, metadata, uid) ==
    LET dicts == {n \in 1..Len(h) : h[n].type = "dict"}
        h1 == IF metadata = None /\ dicts = {} THEN Alloc(h, DictCell) ELSE h
        m == IF metadata # None THEN metadata
             ELSE IF dicts = {} THEN Ref(Len(h1))
             ELSE Ref(CHOOSE n \in dicts : \A k \in dicts : n <= k)
    IN  [heap |-> h1, obj |-> AttributeInit(label, value, m, uid)]

\* Attribute.__init__ with its containers on the heap: metadata left out
\* gets a dict made by this call, metadata given is stored as it is.
HeapAttributeInit(h, label, value, metadata, uid) ==
    LET h1 == IF metadata = None THEN Alloc(h, DictCell) ELSE h
        m == IF metadata = None THEN Ref(Len(h1)) ELSE metadata
    IN  [heap |-> h1, obj |-> AttributeInit(label, value, m, uid)]

\* Mutant of AttributeCopy: the copy keeps the identifier of the original.
AttributeCopySameUid(h, a, fresh) ==
    LET r == HeapAttributeInit(h, a.label, a.value, a.metadata, a.uid)
    IN  [r EXCEPT !.obj.cls = a.cls]

\* Attribute.copy(): dataclasses.replace(self, uid=generate_id()) calls the
\* constructor of the class with the fields of self and the new uid.
AttributeCopy(h, a, fresh) ==
    LET r == HeapAttributeInit(h, a.label, a.value, a.metadata, fresh)
    IN  [r EXCEPT !.obj.cls = a.cls]

\* Annotation.__init__ with its containers on the heap: attrs and metadata
\* left out each get a container made by this call.
HeapAnnotationDefaults(h, attrs, metadata) ==
    LET h1 == IF attrs = None THEN Alloc(h, ListCell) ELSE h
        a == IF attrs = None THEN Ref(Len(h1)) ELSE attrs
        h2 == IF metadata = None THEN Alloc(h1, DictCell) ELSE h1
        m == IF metadata = None THEN Ref(Len(h2)) ELSE metadata
    IN  [heap |-> h2, attrs |-> a, metadata |-> m]

\* Segment(label, spans, text, attrs, ann_id, metadata): attrs and metadata
\* go through TextAnnotation.__init__ to Annotation.__init__ as given.
HeapSegmentInit(h, label, attrs, ann_id, metadata) ==
    LET d == HeapAnnotationDefaults(h, attrs, metadata)
    IN  [heap |-> d.heap,
         obj |-> SegmentInit([label |-> label, spans |-> OneSpan, text |-> OneText,
                              attrs |-> d.attrs, ann_id |-> ann_id,
                              metadata |-> d.metadata], ann_id).val]

\* TextDocument.__init__ up to its raw segment: anns and metadata left out
\* each get a container made by this call.
HeapDocumentInit(h, text, annlist, metadata, uid) ==
    LET h1 == IF annlist = None THEN Alloc(h, ListCell) ELSE h
        l == IF annlist = None THEN Ref(Len(h1)) ELSE annlist
        h2 == IF metadata = None THEN Alloc(h1, DictCell) ELSE h1
        m == IF metadata = None THEN Ref(Len(h2)) ELSE metadata
    IN  [heap |-> h2] @@ TextDocumentInit(text, Deref(h2, l), m, uid)

\* An object as a caller reads it: its containers in place of references.
View(h, o) ==
    IF o.cls = "Segment"
    THEN [o EXCEPT !.attrs = Deref(h, @), !.metadata = Deref(h, @)]
    ELSE [o EXCEPT !.value = Deref(h, @), !.metadata = Deref(h, @)]

\* History of an object: the container fields its constructor defaulted,
\* and the object it was copied from (0 for none).
Made(defaulted, copy_of) == [defaulted |-> defaulted, copy_of |-> copy_of]

---------------------------------------------------------------------------
(* State machine *)

Init ==
    /\ doc = Unset
    /\ anns = Unset
    /\ held = <<>>
    /\ op = [name |-> "init"]
    /\ exc = "none"
    /\ ret = Unset
    /\ issued = {}
    /\ objs = <<>>
    /\ heap = <<>>

\* TextAnnotationContainer(doc_id=doc_id, raw_segment=Segment(...)) built by
\* a caller with the keywords Segment declares.
NewContainer(doc_id, text) ==
    LET raw == SegmentInit([label |-> RAW_LABEL,
                            spans |-> <<Span(0, Len(text))>>,
                            text |-> text,
                            ann_id |-> RawUidOf(doc_id)], RawUidOf(doc_id))
    IN  /\ anns' = ContainerNew(doc_id, raw.val)
        /\ held' = <<raw.val>>
        /\ op' = [name |-> "new_container", doc_id |-> doc_id, text |-> text]
        /\ exc' = "none"
        /\ ret' = Unset
        /\ UNCHANGED <<doc, issued>>
    /\ UNCHANGED memvars

\* anns.add(ann)
Add(ann) ==
    /\ anns # Unset
    /\ Len(held) <= MaxAnns
    /\ LET r == ContainerAdd(anns, ann)
       IN  /\ exc' = r.exc
           /\ anns' = IF r.exc = "none" THEN r.val ELSE anns
           /\ held' = IF r.exc = "none" THEN Append(held, ann) ELSE held
    /\ op' = [name |-> "add", ann |-> ann]
    /\ ret' = Unset
    /\ UNCHANGED <<doc, issued>>
    /\ UNCHANGED memvars

\* anns.get(label=label)
Get(label) ==
    /\ anns # Unset
    /\ op' = [name |-> "get", label |-> label]
    /\ exc' = "none"
    /\ ret' = ContainerGetByLabel(anns, label)
    /\ UNCHANGED <<doc, anns, held, issued>>
    /\ UNCHANGED memvars

\* anns.get()
GetAll ==
    /\ anns # Unset
    /\ op' = [name |-> "get_all"]
    /\ exc' = "none"
    /\ ret' = ContainerGetAll(anns)
    /\ UNCHANGED <<doc, anns, held, issued>>
    /\ UNCHANGED memvars

\* anns.get_by_id(uid)
GetById(uid) ==
    /\ anns # Unset
    /\ LET r == ContainerGetById(anns, uid)
       IN  /\ exc' = r.exc
           /\ ret' = IF r.exc = "none" THEN r.val ELSE Unset
    /\ op' = [name |-> "get_by_id", uid |-> uid]
    /\ UNCHANGED <<doc, anns, held, issued>>
    /\ UNCHANGED memvars

\* TextDocument(text=text, anns=annlist, metadata=metadata, uid=uid);
\* uid = "None" stands for the argument left out.
NewTextDocument(text, annlist, metadata, uid) ==
    /\ uid = "None" => FreshIds # {}
    /\ \E g \in (IF uid = "None" THEN FreshIds ELSE {uid}) :
         LET r == TextDocumentInit(text, annlist, metadata, g)
         IN  /\ doc' = r.obj
             /\ exc' = r.exc
             /\ anns' = IF r.exc = "none" THEN r.container ELSE anns
             /\ held' = IF r.exc = "none"
                        THEN <<r.obj.raw_segment>> \o annlist ELSE held
             /\ issued' = IF uid = "None" THEN issued \cup {g} ELSE issued
    /\ op' = [name |-> "new_document", text |-> text, anns |-> annlist,
              metadata |-> metadata, uid |-> uid]
    /\ ret' = Unset
    /\ UNCHANGED memvars

\* TextAnnotation.from_dict(x.to_dict())
RoundTrip(x) ==
    /\ LET data == ToDict(x)
           back == IF data.exc = "none" THEN TextAnnotationFromDict(data.val) ELSE data
       IN  /\ exc' = back.exc
           /\ ret' = IF back.exc = "none" THEN back.val ELSE Unset
    /\ op' = [name |-> "round_trip", x |-> x]
    /\ UNCHANGED <<doc, anns, held, issued>>
    /\ UNCHANGED memvars

\* TextDocument.from_dict(doc_dict)
DocFromDict(doc_dict) ==
    /\ LET r == TextDocumentFromDict(doc_dict)
       IN  /\ doc' = r.obj
           /\ exc' = r.exc
           /\ anns' = IF r.exc = "none" THEN r.container ELSE anns
           /\ held' = IF r.exc = "none"
                      THEN ContainerGetAll(r.container) ELSE held
    /\ op' = [name |-> "from_dict", data |-> doc_dict]
    /\ ret' = Unset
    /\ UNCHANGED issued
    /\ UNCHANGED memvars

\* Relation(label="X", source_id=..., target_id=..., rel_id=...): the
\* container, if there is one, plays no part.
NewRelation(source_id, target_id, rel_id) ==
    /\ LET r == RelationInit([label |-> "X", source_id |-> source_id,
                              target_id |-> target_id, rel_id |-> rel_id], rel_id)
       IN  /\ exc' = r.exc
           /\ ret' = IF r.exc = "none" THEN r.val ELSE Unset
    /\ op' = [name |-> "new_relation", source_id |-> source_id,
              target_id |-> target_id, rel_id |-> rel_id]
    /\ UNCHANGED <<doc, anns, held, issued>>
    /\ UNCHANGED memvars

\* cls.from_dict(d) for cls in the Attribute family
AttrFromDict(cls, d) ==
    /\ LET r == AttributeClsFromDict(cls, d, 0)
       IN  /\ exc' = r.exc
           /\ ret' = IF r.exc = "none" THEN r.val ELSE Unset
           /\ op' = [name |-> "attr_from_dict", cls |-> cls, data |-> d,
                     dispatches |-> r.dispatches]
    /\ UNCHANGED <<doc, anns, held, issued>>
    /\ UNCHANGED memvars

\* cls.from_dict(doc_dict) for cls in the TextDocument family
DocFromDictOn(cls, doc_dict) ==
    /\ LET r == DocumentClsFromDict(cls, doc_dict, 0)
       IN  /\ doc' = r.obj
           /\ exc' = r.exc
           /\ anns' = IF r.exc = "none" THEN r.container ELSE anns
           /\ held' = IF r.exc = "none"
                      THEN ContainerGetAll(r.container) ELSE held
           /\ op' = [name |-> "from_dict_on", cls |-> cls, data |-> doc_dict,
                     dispatches |-> r.dispatches, built |-> r.cls]
    /\ ret' = Unset
    /\ UNCHANGED issued
    /\ UNCHANGED memvars

\* TextAnnotation.from_dict(ann_dict)
AnnFromDict(d) ==
    /\ LET r == TextAnnotationFromDict(d)
       IN  /\ exc' = r.exc
           /\ ret' = IF r.exc = "none" THEN r.val ELSE Unset
    /\ op' = [name |-> "ann_from_dict", data |-> d]
    /\ UNCHANGED <<doc, anns, held, issued>>
    /\ UNCHANGED memvars

\* Attribute("negated", value, metadata, uid); a list value is a list the
\* caller makes for the call, uid "None" stands for the argument left out.
NewAttribute(kind, metadata, uid) ==
    /\ Len(objs) < MaxObjs
    /\ \E g \in (IF uid = "None" THEN FreshIds ELSE {uid}) :
         LET h0 == IF kind = "list" THEN Alloc(heap, ListCell) ELSE heap
             v == IF kind = "list" THEN Ref(Len(h0)) ELSE Scalar("true")
             r == HeapAttributeInit(h0, "negated", v, metadata, g)
         IN  /\ Len(r.heap) <= MaxCells
             /\ heap' = r.heap
             /\ objs' = Append(objs,
                   [obj |-> r.obj,
                    made |-> Made(IF metadata = None THEN {"metadata"} ELSE {}, 0)])
             /\ ret' = r.obj
             /\ issued' = IF uid = "None" THEN issued \cup {g} ELSE issued
    /\ exc' = "none"
    /\ op' = [name |-> "new_attribute", value |-> kind, metadata |-> metadata,
              uid |-> uid]
    /\ UNCHANGED <<doc, anns, held>>

\* Segment("X", spans, text, attrs, "a1", metadata)
NewSegment(attrs, metadata) ==
    /\ Len(objs) < MaxObjs
    /\ LET r == HeapSegmentInit(heap, "X", attrs, "a1", metadata)
       IN  /\ Len(r.heap) <= MaxCells
           /\ heap' = r.heap
           /\ objs' = Append(objs,
                 [obj |-> r.obj,
                  made |-> Made((IF attrs = None THEN {"attrs"} ELSE {})
                                \cup (IF metadata = None THEN {"metadata"} ELSE {}), 0)])
           /\ ret' = r.obj
    /\ exc' = "none"
    /\ op' = [name |-> "new_segment", attrs |-> attrs, metadata |-> metadata]
    /\ UNCHANGED <<doc, anns, held, issued>>

\* TextDocument(text) with anns and metadata left out: the containers are
\* made, the call raises, and the caller gets no object.
NewDocumentDefault(text, uid) ==
    /\ LET r == HeapDocumentInit(heap, text, None, None, uid)
       IN  /\ Len(r.heap) <= MaxCells
           /\ heap' = r.heap
           /\ exc' = r.exc
           /\ doc' = r.obj
           /\ anns' = IF r.exc = "none" THEN r.container ELSE anns
           /\ held' = IF r.exc = "none" THEN ContainerGetAll(r.container) ELSE held
    /\ ret' = Unset
    /\ op' = [name |-> "new_document_default", text |-> text, uid |-> uid]
    /\ UNCHANGED <<objs, issued>>

\* objs[i].copy()
Copy(i) ==
    /\ Len(objs) < MaxObjs
    /\ objs[i].obj.cls # "Segment"
    /\ \E g \in FreshIds :
         LET r == AttributeCopy(heap, objs[i].obj, g)
         IN  /\ heap' = r.heap
             /\ objs' = Append(objs, [obj |-> r.obj, made |-> Made({}, i)])
             /\ ret' = r.obj
             /\ issued' = issued \cup {g}
    /\ exc' = "none"
    /\ op' = [name |-> "copy", target |-> i]
    /\ UNCHANGED <<doc, anns, held>>

\* objs[i].metadata[key] = value
PutMetadata(i, key, value) ==
    /\ heap' = [heap EXCEPT ![objs[i].obj.metadata.ref].content = (key :> value) @@ @]
    /\ exc' = "none"
    /\ ret' = Unset
    /\ op' = [name |-> "put_metadata", target |-> i, field |-> "metadata"]
    /\ UNCHANGED <<doc, anns, held, issued, objs>>

\* objs[i].value.append(x) for an attribute whose value is a list
AppendValue(i, x) ==
    /\ objs[i].obj.cls # "Segment"
    /\ IsRef(objs[i].obj.value)
    /\ Len(Deref(heap, objs[i].obj.value)) < MaxListLen
    /\ heap' = [heap EXCEPT ![objs[i].obj.value.ref].content = Append(@, x)]
    /\ exc' = "none"
    /\ ret' = Unset
    /\ op' = [name |-> "append_value", target |-> i, field |-> "value"]
    /\ UNCHANGED <<doc, anns, held, issued, objs>>

\* objs[i].attrs.append(objs[j]) for a segment and an attribute
AppendAttr(i, j) ==
    /\ objs[i].obj.cls = "Segment"
    /\ objs[j].obj.cls # "Segment"
    /\ Len(Deref(heap, objs[i].obj.attrs)) < MaxListLen
    /\ heap' = [heap EXCEPT ![objs[i].obj.attrs.ref].content = Append(@, [obj |-> j])]
    /\ exc' = "none"
    /\ ret' = Unset
    /\ op' = [name |-> "append_attr", target |-> i, field |-> "attrs"]
    /\ UNCHANGED <<doc, anns, held, issued, objs>>

\* Attributes and annotations as objects: construction, copy, and updates of
\* the containers they hold.
NextObjects ==
    \/ \E k \in {"scalar", "list"}, m \in {None} \cup RefsOf(heap, "dict"),
          u \in {"t1", "None"} : NewAttribute(k, m, u)
    \/ \E a \in {None} \cup RefsOf(heap, "list"),
          m \in {None} \cup RefsOf(heap, "dict") : NewSegment(a, m)
    \/ \E t \in {OneText}, u \in {"d1"} : NewDocumentDefault(t, u)
    \/ \E i \in 1..Len(objs) : Copy(i)
    \/ \E i \in 1..Len(objs) : PutMetadata(i, "k", "v")
    \/ \E i \in 1..Len(objs) : AppendValue(i, "x")
    \/ \E i, j \in 1..Len(objs) : AppendAttr(i, j)

SpecObjects == Init /\ [][NextObjects]_vars

\* Segment(spans=spans).get_snippet(doc, max_extend_length), doc.text = text
GetSnippetCall(spans, text, max_extend_length) ==
    /\ LET r == GetSnippet(spans, text, max_extend_length)
       IN  /\ exc' = r.exc
           /\ ret' = IF r.exc = "none" THEN r.val ELSE Unset
    /\ op' = [name |-> "get_snippet", spans |-> spans, text |-> text,
              max_extend_length |-> max_extend_length]
    /\ UNCHANGED <<doc, anns, held, issued>>
    /\ UNCHANGED memvars

\* Snippets of a document text around a segment.
NextSnippet ==
    \E sp \in SnippetSpans, n \in 0..MaxTextLen, m \in 0..MaxExtend :
        GetSnippetCall(sp, TextOfLen(n), m)

SpecSnippet == Init /\ [][NextSnippet]_vars

\* Before a call of extract: the segment and the ranges it will be given.
InitExtract ==
    /\ doc = Unset
    /\ anns = Unset
    /\ held = <<>>
    /\ op \in {[name |-> "extract_args", text |-> g.text, spans |-> g.spans,
                 ranges |-> r] : g \in ExtractSegments, r \in RangeLists}
               \cup {[name |-> "normalize_args", spans |-> sp] : sp \in NormalizeInputs}
    /\ exc = "none"
    /\ ret = Unset
    /\ issued = {}
    /\ objs = <<>>
    /\ heap = <<>>

\* span_utils.extract(text=segment.text, spans=segment.spans, ranges=ranges)
ExtractCall ==
    /\ op.name = "extract_args"
    /\ LET r == Extract(op.text, op.spans, op.ranges)
       IN  /\ exc' = r.exc
           /\ ret' = IF r.exc = "none" THEN r.val ELSE Unset
    /\ op' = [op EXCEPT !.name = "extract"]
    /\ UNCHANGED <<doc, anns, held, issued>>
    /\ UNCHANGED memvars

\* spans_normalized = span_utils.normalize_spans(spans)
NormalizeCall ==
    /\ op.name = "normalize_args"
    /\ ret' = NormalizeSpans(op.spans)
    /\ op' = [op EXCEPT !.name = "normalize"]
    /\ UNCHANGED <<doc, anns, held, exc, issued>>
    /\ UNCHANGED memvars

\* span_utils.normalize_spans(spans_normalized): the returned list is
\* normalized once more; op keeps the list the first call returned.
NormalizeAgainCall ==
    /\ op.name = "normalize"
    /\ ret' = NormalizeSpans(ret)
    /\ op' = [name |-> "normalize_again", spans |-> op.spans, first |-> ret]
    /\ UNCHANGED <<doc, anns, held, exc, issued>>
    /\ UNCHANGED memvars

\* The span algebra: extraction of ranges from a segment, normalization of
\* a span list.
NextExtract ==
    \/ ExtractCall
    \/ NormalizeCall
    \/ NormalizeAgainCall

SpecExtract == InitExtract /\ [][NextExtract]_vars

\* The container API: construction, add, get, get_by_id.
NextContainer ==
    \/ \E d \in DocIds, t \in Texts : NewContainer(d, t)
    \/ \E a \in AnnPool : Add(a)
    \/ \E l \in Labels : Get(l)
    \/ GetAll
    \/ \E u \in AnnIds \cup {"r2", "zz"} : GetById(u)
    \/ \E s, t \in AnnIds \cup {"zz"}, u \in {"a1", "a2"} : NewRelation(s, t, u)

SpecContainer == Init /\ [][NextContainer]_vars

\* The document API: construction, and the mappings of to_dict / from_dict.
Next ==
    \/ \E t \in Texts, l \in AnnLists, m \in Metadatas, u \in DocIds \cup {"None"} :
         NewTextDocument(t, l, m, u)
    \/ \E x \in RoundTripPool : RoundTrip(x)
    \/ \E d \in DocDicts : DocFromDict(d)
    \/ \E c \in {"Attribute"} \cup AttributeSubclasses, d \in AttrDicts :
         AttrFromDict(c, d)
    \/ \E c \in {"TextDocument"} \cup DocumentSubclasses, d \in DocDicts \cup SubDocDicts :
         DocFromDictOn(c, d)
    \/ \E d \in AnnDicts : AnnFromDict(d)

Spec == Init /\ [][Next]_vars

---------------------------------------------------------------------------
(* medkit.io._doccano_utils *)

\* Lines of a doccano JSONL export, as dicts: the columns of a task, with or
\* without an id, a "metadata" column and a further key "custom_data".
DoccanoLines(columns) ==
    {c @@ x @@ y @@ z :
        c \in columns,
        x \in {EmptyDict, [custom_data |-> "phrase_0"]},
        y \in {EmptyDict, [metadata |-> [source |-> "file_0"]]},
        z \in {EmptyDict, [id |-> 7]}}

\* DoccanoEntity(**ann), DoccanoRelation(**ann): the keys of ann are the
\* fields of the dataclass.
DoccanoAnnsById(items, fields) ==
    IF \E k \in 1..Len(items) : DOMAIN items[k] # fields
    THEN Raise("TypeError")
    ELSE Ok([i \in {items[k].id : k \in 1..Len(items)} |->
                items[CHOOSE k \in 1..Len(items) :
                        /\ items[k].id = i
                        /\ \A n \in (k + 1)..Len(items) : items[n].id # i]])

\* doc_line.get("metadata", {})
DoccanoMetadata(doc_line) ==
    IF "metadata" \in DOMAIN doc_line THEN doc_line.metadata ELSE EmptyDict

\* DoccanoDocRelationExtraction.from_dict(doc_line, column_text)
DoccanoDocRelationExtractionFromDict(doc_line, column_text) ==
    IF ~({column_text, "entities", "relations"} \subseteq DOMAIN doc_line)
    THEN Raise("KeyError")
    ELSE LET entities == DoccanoAnnsById(doc_line.entities,
                                         {"id", "start_offset", "end_offset", "label"})
             relations == DoccanoAnnsById(doc_line.relations,
                                          {"id", "from_id", "to_id", "type"})
         IN  IF entities.exc # "none" THEN entities
             ELSE IF relations.exc # "none" THEN relations
             ELSE Ok([cls |-> "DoccanoDocRelationExtraction",
                      id |-> IF "id" \in DOMAIN doc_line THEN doc_line.id ELSE None,
                      text |-> doc_line[column_text],
                      entities |-> entities.val,
                      relations |-> relations.val,
                      metadata |-> DoccanoMetadata(doc_line)])

\* DoccanoDocSeqLabeling.from_dict(doc_line, column_text, column_label);
\* DoccanoEntityTuple(*ann) takes the three items of ann.
DoccanoDocSeqLabelingFromDict(doc_line, column_text, column_label) ==
    IF ~({column_text, column_label} \subseteq DOMAIN doc_line)
    THEN Raise("KeyError")
    ELSE LET items == doc_line[column_label]
         IN  IF \E k \in 1..Len(items) : DOMAIN items[k] # 1..3
             THEN Raise("TypeError")
             ELSE Ok([cls |-> "DoccanoDocSeqLabeling",
                      text |-> doc_line[column_text],
                      entities |-> [k \in 1..Len(items) |->
                                      [start_offset |-> items[k][1],
                                       end_offset |-> items[k][2],
                                       label |-> items[k][3]]],
                      metadata |-> DoccanoMetadata(doc_line)])

\* DoccanoDocTextClassification.from_dict(doc_line, column_text, column_label)
DoccanoDocTextClassificationFromDict(doc_line, column_text, column_label) ==
    IF ~({column_text, column_label} \subseteq DOMAIN doc_line)
    THEN Raise("KeyError")
    ELSE IF doc_line[column_label] = <<>>
    THEN Raise("IndexError")
    ELSE Ok([cls |-> "DoccanoDocTextClassification",
             text |-> doc_line[column_text],
             label |-> doc_line[column_label][1],
             metadata |-> DoccanoMetadata(doc_line)])

\* cls.from_dict(doc_line, ...) of one of the three document classes, on a
\* line of its task.
DoccanoFromDictCall ==
    /\ op.name = "doccano_args"
    /\ LET r == IF op.cls = "DoccanoDocRelationExtraction"
                THEN DoccanoDocRelationExtractionFromDict(op.doc_line, op.column_text)
                ELSE IF op.cls = "DoccanoDocSeqLabeling"
                THEN DoccanoDocSeqLabelingFromDict(op.doc_line, op.column_text,
                                                   op.column_label)
                ELSE DoccanoDocTextClassificationFromDict(op.doc_line, op.column_text,
                                                          op.column_label)
       IN  /\ exc' = r.exc
           /\ ret' = IF r.exc = "none" THEN r.val ELSE Unset
    /\ op' = [op EXCEPT !.name = "doccano_from_dict"]
    /\ UNCHANGED <<doc, anns, held, issued>>
    /\ UNCHANGED memvars

\* The calls of from_dict: DoccanoDocRelationExtraction on lines of the
\* relation extraction task, DoccanoDocSeqLabeling on lines whose labels are
\* (start, end, label) tuples, DoccanoDocTextClassification on lines whose
\* labels are strings; the text column is the one asked for or another one.
DoccanoCalls ==
    LET entity0 == [id |-> 0, start_offset |-> 0, end_offset |-> 6, label |-> "ORG"]
        entity1 == [id |-> 1, start_offset |-> 22, end_offset |-> 26, label |-> "DATE"]
        nolabel == [id |-> 2, start_offset |-> 0, end_offset |-> 6]
        relation0 == [id |-> 0, from_id |-> 0, to_id |-> 1, type |-> "created_in"]
        relation_extraction ==
            {[text |-> "medkit", entities |-> e, relations |-> r] :
                e \in {<<>>, <<entity0, entity1>>, <<entity0, nolabel>>},
                r \in {<<>>, <<relation0>>}}
        seq_labeling ==
            {[text |-> "medkit", label |-> l] :
                l \in {<<>>, <<<<0, 6, "ORG">>, <<22, 26, "DATE">>>>, <<<<0, 6>>>>}}
        text_classification ==
            {[text |-> "medkit", label |-> l] : l \in {<<>>, <<"header">>}}
        Calls(cls, columns) ==
            {[name |-> "doccano_args", cls |-> cls, doc_line |-> l,
              column_text |-> t, column_label |-> "label"] :
                l \in DoccanoLines(columns), t \in {"text", "content"}}
    IN  Calls("DoccanoDocRelationExtraction", relation_extraction)
        \cup Calls("DoccanoDocSeqLabeling", seq_labeling)
        \cup Calls("DoccanoDocTextClassification", text_classification)

---------------------------------------------------------------------------
(* medkit.io.brat: BratOutputConverter *)

\* The brat attributes written for one annotation: its attributes whose
\* label is selected, in attribute order, numbered from nb_attribute on.
BratAttributesOf(ann, attrs, nb_attribute, brat_id) ==
    LET selected == SelectSeq(ann.attrs, LAMBDA a : a.label \in attrs)
    IN  [i \in 1..Len(selected) |->
            [kind |-> "A", nb |-> nb_attribute + i - 1, label |-> selected[i].label,
             value |-> selected[i].value, target |-> brat_id]]

\* One loop of _create_brat_from_anns, over the segments (kind "T") or over
\* the relations (kind "R"): the brat annotation of each, then its selected
\* attributes; nb and nb_attribute are the counters on entry.
RECURSIVE BratFromAnns(_, _, _, _, _)
BratFromAnns(list, kind, nb, nb_attribute, attrs) ==
    IF list = <<>> THEN [out |-> <<>>, nb_attribute |-> nb_attribute]
    ELSE LET brat_id == <<kind, nb>>
             own == BratAttributesOf(Head(list), attrs, nb_attribute, brat_id)
             rest == BratFromAnns(Tail(list), kind, nb + 1,
                                  nb_attribute + Len(own), attrs)
         IN  [out |-> <<[kind |-> kind, nb |-> nb, ann |-> Head(list).uid]>>
                        \o own \o rest.out,
              nb_attribute |-> rest.nb_attribute]

\* BratOutputConverter._create_brat_from_anns(segments, relations, attrs):
\* the brat annotations in the order they are written.
BratCreateFromAnns(segments, relations, attrs) ==
    LET s == BratFromAnns(segments, "T", 1, 1, attrs)
        r == BratFromAnns(relations, "R", 1, s.nb_attribute, attrs)
    IN  s.out \o r.out

\* BratOutputConverter._get_anns_from_medkit_doc(medkit_doc), annotations
\* being medkit_doc.get_annotations(); label_anns and attrs are None or
\* [list |-> labels].  The local attrs is assigned only when self.attrs is
\* None.
BratGetAnnsFromMedkitDoc(annotations, label_anns, attrs, keep_segments) ==
    LET kept == IF label_anns = None THEN annotations
                ELSE SelectSeq(annotations,
                               LAMBDA a : \E i \in 1..Len(label_anns.list) :
                                              a.label = label_anns.list[i])
        segments == SelectSeq(kept, LAMBDA a : a.cls = "Entity"
                                        \/ (a.cls = "Segment" /\ keep_segments))
        relations == SelectSeq(kept, LAMBDA a : a.cls = "Relation")
    IN  IF attrs # None
        THEN Raise("UnboundLocalError")
        ELSE Ok([segments |-> segments, relations |-> relations,
                 attrs |-> UNION {{kept[i].attrs[j].label : j \in 1..Len(kept[i].attrs)} :
                                    i \in 1..Len(kept)}])

\* convert(): entities, relations, attrs = self._get_anns_from_medkit_doc(doc);
\* brat_str = self._create_brat_from_anns(entities, relations, attrs)
BratConvertCall ==
    /\ op.name = "brat_args"
    /\ LET got == BratGetAnnsFromMedkitDoc(op.annotations, op.label_anns, op.attrs,
                                           op.keep_segments)
       IN  /\ exc' = got.exc
           /\ ret' = IF got.exc = "none"
                     THEN BratCreateFromAnns(got.val.segments, got.val.relations,
                                             got.val.attrs)
                     ELSE Unset
    /\ op' = [op EXCEPT !.name = "brat_convert"]
    /\ UNCHANGED <<doc, anns, held, issued>>
    /\ UNCHANGED memvars

\* Converters and the annotations of the documents they are given: entities,
\* a segment and a relation carrying attributes "negation" and "family".
BratCalls ==
    LET negation == AttributeInit("negation", "true", EmptyDict, "t1")
        family == AttributeInit("family", "false", EmptyDict, "t2")
        pool ==
            {EntityInit([label |-> "disease", spans |-> OneSpan, text |-> OneText,
                         attrs |-> <<family, negation>>, entity_id |-> "a1"], "a1").val,
             EntityInit([label |-> "drug", spans |-> OneSpan, text |-> OneText,
                         attrs |-> <<negation>>, entity_id |-> "a2"], "a2").val,
             SegmentInit([label |-> "disease", spans |-> OneSpan, text |-> OneText,
                          attrs |-> <<negation, family>>, ann_id |-> "a3"], "a3").val,
             RelationInit([label |-> "treats", source_id |-> "a2", target_id |-> "a1",
                           attrs |-> <<family>>, rel_id |-> "r1"], "r1").val}
    IN  {[name |-> "brat_args", annotations |-> l, label_anns |-> la, attrs |-> at,
          keep_segments |-> k] :
            l \in {x \in SeqsUpTo(pool, MaxListLen) :
                     \A i, j \in 1..Len(x) : x[i].uid = x[j].uid => i = j},
            la \in {None, [list |-> <<"disease", "treats">>]},
            at \in {None, [list |-> <<"negation">>], [list |-> <<>>]},
            k \in BOOLEAN}

---------------------------------------------------------------------------
(* medkit.text.segmentation.syntagma_tokenizer *)

\* The separator alternative "sep1|sep2|...|$" at offset e of text: the
\* length of the first separator found there, 0 for $ (the end of the text,
\* or the newline that ends it), -1 when nothing matches.  Separators are
\* literal strings.
SeparatorAt(text, e, separators) ==
    LET found == {i \in 1..Len(separators) :
                    /\ e + Len(separators[i]) <= Len(text)
                    /\ SubSeq(text, e + 1, e + Len(separators[i])) = separators[i]}
    IN  IF found # {}
        THEN Len(separators[CHOOSE i \in found : \A j \in found : i <= j])
        ELSE IF e = Len(text) \/ (e = Len(text) - 1 /\ text[Len(text)] = "\n")
        THEN 0
        ELSE -1

\* The match of "(?P<blanks> *)(?P<syntagma>.+?)(?P<separator>...|$)" that
\* begins at offset p, if there is one: as many blanks as a match allows,
\* then the shortest syntagma of characters other than newline that a
\* separator follows.
MatchAt(text, p, separators) ==
    LET blanks == {n \in 0..(Len(text) - p) : \A i \in (p + 1)..(p + n) : text[i] = " "}
        found == {x \in blanks \X ((p + 1)..Len(text)) :
                    /\ p + x[1] < x[2]
                    /\ \A i \in (p + x[1] + 1)..x[2] : text[i] # "\n"
                    /\ SeparatorAt(text, x[2], separators) >= 0}
    IN  IF found = {} THEN [matched |-> FALSE]
        ELSE LET n == CHOOSE n \in {x[1] : x \in found} : \A x \in found : x[1] <= n
                 e == CHOOSE e \in {x[2] : x \in {y \in found : y[1] = n}} :
                         \A x \in {y \in found : y[1] = n} : e <= x[2]
             IN  [matched |-> TRUE, start |-> p, syntagma_start |-> p + n,
                  syntagma_end |-> e, separator_start |-> e,
                  end |-> e + SeparatorAt(text, e, separators)]

\* pattern.finditer(text) from offset pos on: the matches, left to right,
\* none overlapping another.
RECURSIVE FindIter(_, _, _)
FindIter(text, pos, separators) ==
    LET starts == {p \in pos..Len(text) : MatchAt(text, p, separators).matched}
    IN  IF starts = {} THEN <<>>
        ELSE LET match == MatchAt(text, CHOOSE p \in starts : \A q \in starts : p <= q,
                                  separators)
             IN  <<match>> \o FindIter(text, match.end, separators)

\* Mutant of FindSyntagmas: every syntagma starts where its match of the
\* syntagma group starts.

RECURSIVE FindSyntagmasFromMatchStart(_, _, _, _, _)
FindSyntagmasFromMatchStart(segment, matches, start, sep_exists, keep_separator) ==
    IF matches = <<>> THEN Ok(<<>>)
    ELSE LET match == Head(matches)
             syntagma_text == Slice(segment.text, match.syntagma_start, match.syntagma_end)
         IN  IF \A i \in 1..Len(syntagma_text) : syntagma_text[i] \in {" ", "\t", "\n"}
             THEN FindSyntagmasFromMatchStart(segment, Tail(matches), start, sep_exists, keep_separator)
             ELSE LET start1 == match.syntagma_start
                      end == match.syntagma_end
                      r == Extract(segment.text, segment.spans, <<<<start1, end>>>>)
                      syntagma == SegmentInit([label |-> "SYNTAGMA", spans |-> r.val.spans,
                                               text |-> r.val.text], "g1")
                      rest == FindSyntagmasFromMatchStart(segment, Tail(matches),
                                 IF keep_separator THEN match.separator_start ELSE start1,
                                 keep_separator, keep_separator)
                  IN  IF r.exc # "none" THEN Raise(r.exc)
                      ELSE IF syntagma.exc # "none" THEN Raise(syntagma.exc)
                      ELSE IF rest.exc # "none" THEN rest
                      ELSE Ok(<<[range |-> <<start1, end>>, text |-> syntagma.val.text,
                                 spans |-> syntagma.val.spans,
                                 label |-> syntagma.val.label]>> \o rest.val)

\* The loop of _find_syntagmas_in_segment over the matches not yet visited;
\* start and sep_exists are the loop's variables.  Each syntagma yielded is
\* given with the range that was extracted for it.

RECURSIVE FindSyntagmas(_, _, _, _, _)
FindSyntagmas(segment, matches, start, sep_exists, keep_separator) ==
    IF matches = <<>> THEN Ok(<<>>)
    ELSE LET match == Head(matches)
             syntagma_text == Slice(segment.text, match.syntagma_start, match.syntagma_end)
         IN  IF \A i \in 1..Len(syntagma_text) : syntagma_text[i] \in {" ", "\t", "\n"}
             THEN FindSyntagmas(segment, Tail(matches), start, sep_exists, keep_separator)
             ELSE LET start1 == IF ~sep_exists THEN match.syntagma_start ELSE start
                      end == match.syntagma_end
                      r == Extract(segment.text, segment.spans, <<<<start1, end>>>>)
                      syntagma == SegmentInit([label |-> "SYNTAGMA", spans |-> r.val.spans,
                                               text |-> r.val.text], "g1")
                      rest == FindSyntagmas(segment, Tail(matches),
                                 IF keep_separator THEN match.separator_start ELSE start1,
                                 keep_separator, keep_separator)
                  IN  IF r.exc # "none" THEN Raise(r.exc)
                      ELSE IF syntagma.exc # "none" THEN Raise(syntagma.exc)
                      ELSE IF rest.exc # "none" THEN rest
                      ELSE Ok(<<[range |-> <<start1, end>>, text |-> syntagma.val.text,
                                 spans |-> syntagma.val.spans,
                                 label |-> syntagma.val.label]>> \o rest.val)

\* list(tokenizer._find_syntagmas_in_segment(segment))
FindSyntagmasCall ==
    /\ op.name = "tokenizer_args"
    /\ LET r == FindSyntagmas(op.segment,
                              FindIter(op.segment.text, 0, op.separators),
                              0, FALSE, op.keep_separator)
       IN  /\ exc' = r.exc
           /\ ret' = IF r.exc = "none" THEN r.val ELSE Unset
    /\ op' = [op EXCEPT !.name = "find_syntagmas"]
    /\ UNCHANGED <<doc, anns, held, issued>>
    /\ UNCHANGED memvars

\* Tokenizers and the segments they are run on: texts of letters, blanks,
\* tabs, newlines and commas, each covered by one Span.
TokenizerCalls ==
    {[name |-> "tokenizer_args",
      segment |-> [text |-> t, spans |-> <<Span(0, Len(t))>>],
      separators |-> s, keep_separator |-> k] :
        t \in SeqsUpTo({"a", " ", ",", "\t", "\n"}, MaxSegmentLen),
        s \in {<<<<",">>>>, <<<<",", " ">>, <<",">>>>},
        k \in BOOLEAN}

---------------------------------------------------------------------------
(* medkit.training.utils: BatchData *)

\* A BatchData object: the keys of the OrderedDict in insertion order, its
\* items, and the attributes of the instance (its __dict__).
BatchDataNew == [keys |-> <<>>, items |-> EmptyDict, attrs |-> EmptyDict]

\* Column names, and the values given to them: a list, a tensor on a device.
BatchKeys == {"input_ids", "labels"}
BatchValues == {[list |-> <<1, 2>>], [tensor |-> <<3, 4>>, device |-> "cpu"]}

\* batch[index] for a str index
BatchGetItem(b, index) ==
    IF index \in DOMAIN b.items THEN Ok(b.items[index]) ELSE Raise("KeyError")

\* batch.name: the attribute of the instance when there is one, else
\* __getattr__(name)
BatchGetAttr(b, name) ==
    IF name \in DOMAIN b.attrs THEN Ok(b.attrs[name])
    ELSE IF name \in DOMAIN b.items THEN BatchGetItem(b, name)
    ELSE Raise("AttributeError")

\* OrderedDict.__setitem__(key, values): a new key goes to the end.
DictSetItem(b, key, values) ==
    [b EXCEPT !.keys = IF key \in DOMAIN b.items THEN @ ELSE Append(@, key),
              !.items = (key :> values) @@ @]

\* BatchData.__setitem__(key, values)
BatchSetItem(b, key, values) ==
    [DictSetItem(b, key, values) EXCEPT !.attrs = (key :> values) @@ @]

\* BatchData.__setattr__(name, values)
BatchSetAttr(b, name, values) ==
    LET b1 == IF name \in DOMAIN b.items /\ values # None
              THEN DictSetItem(b, name, values) ELSE b
    IN  [b1 EXCEPT !.attrs = (name :> values) @@ @]

\* BatchData.to_device(device)
RECURSIVE BatchToDeviceFrom(_, _, _, _)
BatchToDeviceFrom(b, device, n, inner_batch) ==
    IF n > Len(b.keys) THEN inner_batch
    ELSE LET key == b.keys[n]
             value == b.items[key]
         IN  BatchToDeviceFrom(b, device, n + 1,
                 BatchSetItem(inner_batch, key,
                              IF "tensor" \in DOMAIN value
                              THEN [value EXCEPT !.device = device] ELSE value))

\* batch = BatchData()
BatchDataCall ==
    /\ op.name = "batch_args"
    /\ objs' = <<BatchDataNew>>
    /\ op' = [name |-> "BatchData"]
    /\ exc' = "none"
    /\ ret' = Unset
    /\ UNCHANGED <<doc, anns, held, issued, heap>>

\* batch[key] = values
BatchSetItemCall(key, values) ==
    /\ objs # <<>>
    /\ objs' = <<BatchSetItem(objs[1], key, values)>>
    /\ op' = [name |-> "batch_setitem", key |-> key, values |-> values]
    /\ exc' = "none"
    /\ ret' = Unset
    /\ UNCHANGED <<doc, anns, held, issued, heap>>

\* batch.name = values
BatchSetAttrCall(name, values) ==
    /\ objs # <<>>
    /\ objs' = <<BatchSetAttr(objs[1], name, values)>>
    /\ op' = [name |-> "batch_setattr", key |-> name, values |-> values]
    /\ exc' = "none"
    /\ ret' = Unset
    /\ UNCHANGED <<doc, anns, held, issued, heap>>

\* batch.to_device(device)
BatchToDeviceCall(device) ==
    /\ objs # <<>>
    /\ ret' = BatchToDeviceFrom(objs[1], device, 1, BatchDataNew)
    /\ op' = [name |-> "batch_to_device", device |-> device]
    /\ exc' = "none"
    /\ UNCHANGED <<doc, anns, held, issued>>
    /\ UNCHANGED memvars

---------------------------------------------------------------------------
(* Converters, tokenizer and training utilities, each called on its own
   arguments *)

InitComponents ==
    /\ doc = Unset
    /\ anns = Unset
    /\ held = <<>>
    /\ op \in DoccanoCalls \cup BratCalls \cup TokenizerCalls \cup {[name |-> "batch_args"]}
    /\ exc = "none"
    /\ ret = Unset
    /\ issued = {}
    /\ objs = <<>>
    /\ heap = <<>>

NextComponents ==
    \/ DoccanoFromDictCall
    \/ BratConvertCall
    \/ FindSyntagmasCall
    \/ BatchDataCall
    \/ \E key \in BatchKeys, values \in BatchValues \cup {None} :
          \/ BatchSetItemCall(key, values)
          \/ BatchSetAttrCall(key, values)
    \/ \E device \in {"cpu", "cuda"} : BatchToDeviceCall(device)

SpecComponents == InitComponents /\ [][NextComponents]_vars

---------------------------------------------------------------------------
(* Properties *)

\* Some annotation of the list has the uid of an earlier one.
HasDuplicateUid(list) ==
    \E i, j \in 1..Len(list) : i < j /\ list[i].uid = list[j].uid

\* C1: add fails with DuplicateIdError whenever the container already holds
\* an annotation with that uid -- also when the duplicate comes in the anns
\* list of the TextDocument constructor, which then ends with
\* DuplicateIdError -- and a failed add leaves the container as it was.
C1_DuplicateUidRaisesDuplicateIdError ==
    [][/\ (op'.name = "add" /\ op'.ann.uid \in DOMAIN anns.by_id)
             => (exc' = "DuplicateIdError" /\ anns' = anns)
       /\ (op'.name = "new_document" /\ HasDuplicateUid(op'.anns))
             => exc' = "DuplicateIdError"]_vars

\* C2: once a TextDocument has been constructed, whatever container
\* operations follow, its container holds its raw segment.
C2_RawSegmentAlwaysInContainer ==
    doc # Unset =>
        /\ doc.anns # Unset
        /\ doc.raw_segment # Unset
        /\ doc.raw_segment.uid \in DOMAIN anns.by_id
        /\ anns.by_id[doc.raw_segment.uid] = doc.raw_segment

\* C3: the container of a constructed TextDocument holds one annotation per
\* successful add plus the raw segment: get() returns N+1 annotations after
\* N accepted adds.
C3_CountIsAcceptedAddsPlusOne ==
    doc # Unset =>
        /\ doc.anns # Unset
        /\ Len(ContainerGetAll(anns)) = (Len(held) - 1) + 1

C6_RawUidIsFunctionOfDocUid ==
    doc # Unset =>
        /\ doc.raw_segment # Unset
        /\ doc.raw_segment.uid = RawUidOf(doc.uid)

\* C7: for every text, TextDocument(text) succeeds, its raw segment has the
\* label RAW_LABEL, the spans [Span(0, len(text))] and the text, and
\* doc.text is the raw segment's text.
C7_ConstructionYieldsRawSegment ==
    (op.name = "new_document" /\ op.anns = <<>>) =>
        /\ exc = "none"
        /\ doc.raw_segment # Unset
        /\ doc.raw_segment.label = RAW_LABEL
        /\ doc.raw_segment.spans = <<Span(0, Len(op.text))>>
        /\ doc.raw_segment.text = op.text
        /\ DocText(doc) = Ok(op.text)

\* C8: after construction and any adds, get(label=RAW_LABEL)[0] on the
\* document's container is the document's raw segment.
C8_FirstOfRawLabelIsRawSegment ==
    doc # Unset =>
        /\ doc.anns # Unset
        /\ Len(ContainerGetByLabel(anns, RAW_LABEL)) >= 1
        /\ ContainerGetByLabel(anns, RAW_LABEL)[1] = doc.raw_segment

\* C9: for every annotation x, from_dict(to_dict(x)) succeeds and yields an
\* annotation of the same class equal to x in every field.
C9_AnnotationRoundTrip ==
    op.name = "round_trip" => (exc = "none" /\ ret = op.x)

\* C10: TextDocument.from_dict of a serialized document succeeds and yields
\* a document with the same uid, text and annotations, in the same order.
C10_DocumentReload ==
    op.name = "from_dict" =>
        /\ exc = "none"
        /\ doc.uid = op.data.uid
        /\ DocText(doc) = Ok(op.data.text)
        /\ "anns" \in DOMAIN op.data =>
             /\ doc.anns # Unset
             /\ [i \in 1..Len(anns.ids) |-> ToDict(anns.by_id[anns.ids[i]])]
                  = [i \in 1..Len(op.data.anns) |-> Ok(op.data.anns[i])]

\* The fields an Attribute of class c rebuilt from mapping d has.
AttributeOf(c, d) ==
    [AttributeInit(d.label, d.value, d.metadata, d.uid) EXCEPT !.cls = c]

\* C11: Attribute.from_dict on the base class, given the to_dict mapping of
\* an instance of a registered subclass, dispatches to the subclass and
\* returns an instance of it; given the mapping of a base Attribute it
\* returns a base Attribute of the uid, label, value and metadata.
C11_BaseFromDictDispatchesToSubclass ==
    (op.name = "attr_from_dict" /\ op.cls = "Attribute"
        /\ op.data.class_name \in AttributeRegistry \cup {"Attribute"})
      => /\ exc = "none"
         /\ ret = AttributeOf(op.data.class_name, op.data)
         /\ op.dispatches = IF op.data.class_name = "Attribute" THEN 0 ELSE 1

\* C12: TextDocument.from_dict on the base class, given a mapping that names
\* a registered subclass with its own from_dict, dispatches to it and the
\* result is an instance of the subclass.
C12_DocumentFromDictDispatchesToSubclass ==
    (op.name = "from_dict_on" /\ op.cls = "TextDocument"
        /\ op.data.class_name \in DocumentRegistry
        /\ FromDictOf(op.data.class_name) # "TextDocument")
      => /\ op.dispatches = 1
         /\ op.built = op.data.class_name
         /\ exc = "none"

\* C13: from_dict on Attribute, TextDocument or TextAnnotation, given a class
\* name that is not registered, does not fail and returns a base instance
\* built from the common fields of the mapping.
C13_UnregisteredNameGivesBaseInstance ==
    /\ (op.name = "attr_from_dict" /\ op.cls = "Attribute"
           /\ op.data.class_name = "Unknown")
         => (exc = "none" /\ ret = AttributeOf("Attribute", op.data))
    /\ (op.name = "ann_from_dict" /\ op.data.class_name = "Unknown")
         => /\ exc = "none"
            /\ ret.cls = "TextAnnotation"
            /\ ret.uid = op.data.uid /\ ret.label = op.data.label
            /\ ret.metadata = op.data.metadata
    /\ (op.name = "from_dict_on" /\ op.cls = "TextDocument"
           /\ op.data.class_name = "Unknown")
         => /\ exc = "none"
            /\ op.built = "TextDocument"
            /\ doc.uid = op.data.uid /\ doc.metadata = op.data.metadata
            /\ DocText(doc) = Ok(op.data.text)

\* C14: for a registered subclass S that inherits from_dict, from_dict on the
\* base or on S with a mapping naming S dispatches at most once and then
\* constructs an instance of S.
C14_FromDictTerminates ==
    /\ (op.name = "attr_from_dict" /\ op.data.class_name = "PlainAttribute"
           /\ op.cls \in {"Attribute", "PlainAttribute"})
         => /\ op.dispatches <= 1
            /\ exc = "none"
            /\ ret = AttributeOf("PlainAttribute", op.data)
    /\ (op.name = "from_dict_on" /\ op.data.class_name = "PlainDocument"
           /\ op.cls \in {"TextDocument", "PlainDocument"})
         => /\ op.dispatches <= 1
            /\ exc = "none"

\* C15: a.copy() returns a new Attribute whose uid differs from a.uid and
\* whose label, value and metadata equal those of a; a, its uid included,
\* is as it was before the call.
C15_CopyHasFreshUidAndEqualFields ==
    [][op'.name = "copy" =>
         LET a == objs[op'.target].obj
         IN  /\ objs' = Append(objs, [obj |-> ret', made |-> Made({}, op'.target)])
             /\ ret'.uid # a.uid
             /\ ret'.cls = a.cls
             /\ View(heap', ret') = [View(heap, a) EXCEPT !.uid = ret'.uid]
             /\ View(heap', a) = View(heap, a)]_vars

\* A copy was made of an attribute that has a key in its metadata and an
\* element in its list value.
C15_Witness ==
    /\ op.name = "copy"
    /\ ret.uid # objs[op.target].obj.uid
    /\ Deref(heap, ret.metadata) # EmptyDict
    /\ IsRef(ret.value) /\ Deref(heap, ret.value) # <<>>

\* i and j are an attribute and a copy() of it, either way round.
CopyPair(i, j) == objs[i].made.copy_of = j \/ objs[j].made.copy_of = i

\* C16: an update of the metadata or of the list value of an attribute
\* leaves the metadata and value of its copy, and of the attribute it was
\* copied from, unchanged.
C16_CopySharesNoMutableState ==
    [][op'.name \in {"put_metadata", "append_value"} =>
         \A j \in 1..Len(objs) :
             (j # op'.target /\ CopyPair(op'.target, j))
               => View(heap', objs[j].obj) = View(heap, objs[j].obj)]_vars

\* C17: two objects constructed with attrs or metadata left out never share
\* the defaulted container: an append to the defaulted attrs of one, or a
\* key put in the defaulted metadata of one, leaves the attrs and metadata
\* of every other such object unchanged.
C17_DefaultedContainersNotShared ==
    [][/\ \A i, j \in 1..Len(objs') :
            i # j => LET di == {objs'[i].obj[f] : f \in objs'[i].made.defaulted}
                         dj == {objs'[j].obj[f] : f \in objs'[j].made.defaulted}
                     IN  di \cap dj = {}
       /\ (op'.name \in {"put_metadata", "append_attr"}
             /\ op'.field \in objs[op'.target].made.defaulted)
            => \A j \in 1..Len(objs) :
                  (j # op'.target /\ objs[j].made.defaulted # {})
                    => \A f \in objs[j].made.defaulted :
                          Deref(heap', objs[j].obj[f]) = Deref(heap, objs[j].obj[f])]_vars

\* A key was put in the defaulted metadata of one object while another
\* object of the class, its metadata defaulted too, has none.
C17_Witness ==
    /\ op.name = "put_metadata"
    /\ "metadata" \in objs[op.target].made.defaulted
    /\ Deref(heap, objs[op.target].obj.metadata) # EmptyDict
    /\ \E j \in 1..Len(objs) :
          /\ j # op.target
          /\ objs[j].obj.cls = objs[op.target].obj.cls
          /\ "metadata" \in objs[j].made.defaulted
          /\ Deref(heap, objs[j].obj.metadata) = EmptyDict

\* The uids of the annotations the container has accepted so far.
HeldUids == {held[i].uid : i \in 1..Len(held)}

\* C18: a Relation is constructed for any source_id and target_id, whatever
\* the container holds; add accepts it without looking its endpoints up;
\* get_by_id fails with NotFoundError exactly when the uid is absent at the
\* time of the call, so an endpoint added after the relation resolves.
C18_RelationEndpointsResolvedOnlyOnQuery ==
    [][/\ op'.name = "new_relation" =>
            /\ exc' = "none"
            /\ ret'.cls = "Relation"
            /\ ret'.source_id = op'.source_id
            /\ ret'.target_id = op'.target_id
            /\ anns' = anns
       /\ (op'.name = "add" /\ op'.ann.cls = "Relation"
              /\ op'.ann.uid \notin HeldUids)
            => (exc' = "none" /\ held' = Append(held, op'.ann))
       /\ op'.name = "get_by_id" =>
            /\ exc' = (IF op'.uid \in HeldUids THEN "none" ELSE "NotFoundError")
            /\ exc' = "none" => ret'.uid = op'.uid]_vars

\* The container took a relation whose source it did not hold, took the
\* source afterwards, and get_by_id then resolved the source.
C18_Witness ==
    /\ op.name = "get_by_id"
    /\ exc = "none"
    /\ \E i, j \in 1..Len(held) :
          /\ i < j
          /\ held[i].cls = "Relation"
          /\ held[i].source_id = op.uid
          /\ held[j].uid = op.uid
          /\ held[i].target_id \notin HeldUids

\* The bounding range of a list of plain Spans.
BoundStart(spans) ==
    CHOOSE x \in {spans[i].start : i \in 1..Len(spans)} :
        \A i \in 1..Len(spans) : x <= spans[i].start

BoundEnd(spans) ==
    CHOOSE x \in {spans[i].end : i \in 1..Len(spans)} :
        \A i \in 1..Len(spans) : x >= spans[i].end

\* get_snippet was called for a segment of plain Spans that lies within the
\* document.
SnippetWithinDocument ==
    /\ op.name = "get_snippet"
    /\ op.spans # <<>>
    /\ \A i \in 1..Len(op.spans) : op.spans[i].cls = "Span"
    /\ BoundEnd(op.spans) <= Len(op.text)

\* C19 as stated: for a segment within the document and max_extend_length
\* >= 0 the window of get_snippet has at least
\* min(max_extend_length + (end - start), len(document.text)) characters.
C19_WindowAtLeastBudget ==
    SnippetWithinDocument =>
        /\ exc = "none"
        /\ Len(ret) >= Min2(op.max_extend_length
                               + (BoundEnd(op.spans) - BoundStart(op.spans)),
                            Len(op.text))

\* C19, amended: the window starts at a = max(start - max_extend_length // 2, 0)
\* and has exactly min(max_extend_length + (end - start), len(text) - a)
\* characters: budget that cannot be used before the segment is used after
\* it, budget that cannot be used after it is not used before it.
C19_WindowLength ==
    SnippetWithinDocument =>
        LET start == BoundStart(op.spans)
            end == BoundEnd(op.spans)
            a == Max2(start - (op.max_extend_length \div 2), 0)
            n == Min2(op.max_extend_length + (end - start), Len(op.text) - a)
        IN  /\ exc = "none"
            /\ Len(ret) = n
            /\ ret = [i \in 1..n |-> op.text[a + i]]

\* A segment closer to the document start than half the budget got the
\* whole budget: what could not be used before it was used after it.
C19_Witness ==
    /\ SnippetWithinDocument
    /\ BoundStart(op.spans) < op.max_extend_length \div 2
    /\ Len(ret) = op.max_extend_length
                     + (BoundEnd(op.spans) - BoundStart(op.spans))
    /\ Len(ret) < Len(op.text)

\* The ranges are non-empty, within the text, ascending and non-overlapping.
AscendingRanges(text, ranges) ==
    /\ \A i \in 1..Len(ranges) :
          0 <= ranges[i][1] /\ ranges[i][1] < ranges[i][2]
            /\ ranges[i][2] <= Len(text)
    /\ \A i \in 1..(Len(ranges) - 1) : ranges[i][2] <= ranges[i + 1][1]

\* text[s_1:e_1] + ... + text[s_n:e_n], character by character.
RECURSIVE ConcatOfRanges(_, _)
ConcatOfRanges(text, ranges) ==
    IF ranges = <<>> THEN <<>>
    ELSE [i \in 1..(ranges[1][2] - ranges[1][1]) |-> text[ranges[1][1] + i]]
         \o ConcatOfRanges(text, Tail(ranges))

\* C20: from the raw segment of a document (text T, spans [Span(0, len(T))])
\* and non-overlapping ascending ranges within T, extract returns the
\* concatenation of the T[s_i:e_i] and the Spans (s_i, e_i), in request
\* order; range (4, 7) of "The cat sat." gives "cat" and [Span(4, 7)].
C20_ExtractFromRawSegment ==
    /\ (op.name = "extract" /\ op.spans = <<Span(0, Len(op.text))>>
           /\ AscendingRanges(op.text, op.ranges))
         => /\ exc = "none"
            /\ ret.text = ConcatOfRanges(op.text, op.ranges)
            /\ ret.spans = [i \in 1..Len(op.ranges) |->
                              Span(op.ranges[i][1], op.ranges[i][2])]
    /\ (op.name = "extract" /\ op.text = TheCatSat /\ op.ranges = <<<<4, 7>>>>)
         => (exc = "none"
               /\ ret = [text |-> <<"c", "a", "t">>, spans |-> <<Span(4, 7)>>])

\* Two ranges with a gap between them were extracted from a raw segment.
C20_Witness ==
    /\ op.name = "extract"
    /\ op.spans = <<Span(0, Len(op.text))>>
    /\ AscendingRanges(op.text, op.ranges)
    /\ Len(op.ranges) = 2
    /\ op.ranges[1][1] > 0
    /\ op.ranges[1][2] < op.ranges[2][1]
    /\ exc = "none"
    /\ Len(ret.spans) = 2

\* The offset in the text of a segment at which its k-th span begins.
RECURSIVE OffsetOf(_, _)
OffsetOf(spans, k) ==
    IF k = 1 THEN 0 ELSE OffsetOf(spans, k - 1) + SpanLength(spans[k - 1])

\* The spans of a segment that cover a character of text[from:to].
Intersected(spans, from, to) ==
    {k \in 1..Len(spans) :
        OffsetOf(spans, k) < to /\ from < OffsetOf(spans, k) + SpanLength(spans[k])}

\* C21: a range strictly inside the text one ModifiedSpan covers yields one
\* ModifiedSpan, of the length of the range, whose replaced spans are taken
\* from those of that ModifiedSpan; a range over several input spans yields
\* one clipped fragment per intersected span, in input order.
C21_ExtractFragments ==
    (op.name = "extract" /\ Len(op.ranges) = 1 /\ op.ranges[1][1] < op.ranges[1][2]) =>
        LET from == op.ranges[1][1]
            to == op.ranges[1][2]
            hit == Intersected(op.spans, from, to)
            NthIntersected(spans, a, b, i) ==
                CHOOSE k \in hit : Cardinality({j \in hit : j < k}) = i - 1
        IN  /\ exc = "none"
            /\ Len(ret.spans) = Cardinality(hit)
            /\ \A i \in 1..Len(ret.spans) :
                  LET k == NthIntersected(op.spans, from, to, i)
                      s == op.spans[k]
                      lo == Max2(from, OffsetOf(op.spans, k))
                      hi == Min2(to, OffsetOf(op.spans, k) + SpanLength(s))
                      f == ret.spans[i]
                  IN  /\ f.cls = s.cls
                      /\ SpanLength(f) = hi - lo
                      /\ s.cls = "Span" =>
                            f.start = s.start + (lo - OffsetOf(op.spans, k))
                      /\ s.cls = "ModifiedSpan" =>
                            \A j \in 1..Len(f.replaced_spans) :
                                \E m \in 1..Len(s.replaced_spans) :
                                    f.replaced_spans[j] = s.replaced_spans[m]

\* A range strictly inside the text of a ModifiedSpan was extracted and one
\* ModifiedSpan of the length of the range came back.
C21_Witness ==
    /\ op.name = "extract"
    /\ Len(op.ranges) = 1
    /\ \E k \in 1..Len(op.spans) :
          /\ op.spans[k].cls = "ModifiedSpan"
          /\ OffsetOf(op.spans, k) < op.ranges[1][1]
          /\ op.ranges[1][2] < OffsetOf(op.spans, k) + SpanLength(op.spans[k])
    /\ exc = "none"
    /\ Len(ret.spans) = 1
    /\ ret.spans[1].cls = "ModifiedSpan"
    /\ ret.spans[1].length = op.ranges[1][2] - op.ranges[1][1]
    /\ ret.spans[1].replaced_spans # <<>>

\* C22: extract answers a request that contains a zero-length range
\* (start = end) with an error; it returns no text and no span list.
C22_ZeroLengthRangeRejected ==
    (op.name = "extract" /\ \E i \in 1..Len(op.ranges) : op.ranges[i][1] = op.ranges[i][2]) =>
        /\ exc # "none"
        /\ ret = Unset

\* A request with a zero-length range next to a non-empty one was rejected.
C22_Witness ==
    /\ op.name = "extract"
    /\ \E i, j \in 1..Len(op.ranges) :
          /\ op.ranges[i][1] = op.ranges[i][2]
          /\ op.ranges[j][1] < op.ranges[j][2]
          /\ op.ranges[j][2] <= Len(op.text)
    /\ exc = "ValueError"
    /\ ret = Unset

\* C23: normalize is idempotent: normalizing the list normalize returned
\* gives that list again.
C23_NormalizeIdempotent ==
    op.name = "normalize_again" => ret = op.first

\* Three contiguous plain Spans were merged into one by the first call and
\* the second call returned the merged list.
C23_Witness ==
    /\ op.name = "normalize_again"
    /\ Len(op.spans) = 3
    /\ \A i \in 1..3 : op.spans[i].cls = "Span"
    /\ op.spans[1].end = op.spans[2].start
    /\ op.spans[2].end = op.spans[3].start
    /\ op.first = <<Span(op.spans[1].start, op.spans[3].end)>>
    /\ ret = op.first

\* Two neighbours of a span list are plain Spans, the second starting where
\* the first ends.
Contiguous(spans, i) ==
    /\ spans[i].cls = "Span"
    /\ spans[i + 1].cls = "Span"
    /\ spans[i].end = spans[i + 1].start

\* C24: normalize merges neighbouring plain Spans a, b into
\* Span(a.start, b.end) exactly when a.end = b.start; a ModifiedSpan is never
\* merged or altered and stays at its relative position; no two neighbours
\* of the output are contiguous plain Spans.
C24_NormalizeMergesContiguousPlainSpans ==
    op.name = "normalize" =>
        LET in == op.spans
            \* the input positions at which a run of contiguous plain Spans,
            \* or a span that is merged with nothing, begins
            begins == {i \in 1..Len(in) : i = 1 \/ ~Contiguous(in, i - 1)}
            Nth(j) == CHOOSE i \in begins : Cardinality({k \in begins : k < i}) = j - 1
            Last(j) == IF j = Cardinality(begins) THEN Len(in) ELSE Nth(j + 1) - 1
        IN  /\ Len(ret) = Cardinality(begins)
            /\ \A j \in 1..Len(ret) :
                  IF in[Nth(j)].cls = "Span"
                  THEN ret[j] = Span(in[Nth(j)].start, in[Last(j)].end)
                  ELSE ret[j] = in[Nth(j)] /\ Last(j) = Nth(j)
            /\ \A j \in 1..(Len(ret) - 1) : ~Contiguous(ret, j)

\* Of three spans the first two, contiguous plain Spans, were merged, and the
\* ModifiedSpan after them was returned as it was given.
C24_Witness ==
    /\ op.name = "normalize"
    /\ Len(op.spans) = 3
    /\ Contiguous(op.spans, 1)
    /\ op.spans[3].cls = "ModifiedSpan"
    /\ ret = <<Span(op.spans[1].start, op.spans[2].end), op.spans[3]>>

\* C25: every Span of every annotation of a document satisfies
\* 0 <= start < end; stated for the raw segment at construction: for any
\* text, the construction gives a document whose raw segment holds the
\* spans built for it, each with 0 <= start < end.
C25_RawSegmentSpanNonEmpty ==
    op.name = "new_document" =>
        /\ \A i \in 1..Len(RawSegmentSpans(op.text)) :
              /\ 0 <= RawSegmentSpans(op.text)[i].start
              /\ RawSegmentSpans(op.text)[i].start < RawSegmentSpans(op.text)[i].end
        /\ exc = "none"
        /\ doc.raw_segment # Unset
        /\ doc.raw_segment.spans = RawSegmentSpans(op.text)

\* C26: the from_dict constructors of the doccano documents import as
\* metadata every key of the line that is not a known column (text, label,
\* entities, relations): a line with the further key custom_data gives
\* metadata {custom_data: value}, a line without further keys gives empty
\* metadata.
C26_DoccanoMetadataFromExtraKeys ==
    (op.name = "doccano_from_dict" /\ exc = "none"
        /\ DOMAIN op.doc_line \subseteq {"text", "label", "entities", "relations",
                                         "custom_data"}) =>
        LET extra == DOMAIN op.doc_line \ {"text", "label", "entities", "relations"}
        IN  ret.metadata = [k \in extra |-> op.doc_line[k]]

\* C27: a BratOutputConverter whose attrs is a list of labels exports, for
\* each exported entity, segment and relation, exactly the attributes whose
\* label is in the list, in attribute order, numbered consecutively from 1;
\* with attrs None it exports all attributes.
C27_BratExportsSelectedAttributes ==
    op.name = "brat_convert" =>
        /\ exc = "none"
        /\ LET written == SelectSeq(ret, LAMBDA x : x.kind = "A")
               Selected(label) ==
                   \/ op.attrs = None
                   \/ \E i \in 1..Len(op.attrs.list) : op.attrs.list[i] = label
           IN  /\ \A i \in 1..Len(written) : written[i].nb = i
               /\ \A n \in 1..Len(ret) :
                     ret[n].kind # "A" =>
                        \E k \in 1..Len(op.annotations) :
                           /\ op.annotations[k].uid = ret[n].ann
                           /\ LET of == SelectSeq(written, LAMBDA x :
                                            x.target = <<ret[n].kind, ret[n].nb>>)
                                  expected == SelectSeq(op.annotations[k].attrs,
                                                        LAMBDA a : Selected(a.label))
                              IN  /\ Len(of) = Len(expected)
                                  /\ \A i \in 1..Len(of) :
                                        /\ of[i].label = expected[i].label
                                        /\ of[i].value = expected[i].value

\* C28: for a segment of plain Spans inside the document and
\* max_extend_length >= 0, get_snippet returns doc.text[a:b] with
\* 0 <= a <= start, end <= b <= len(doc.text) and
\* (start - a) + (b - end) <= max_extend_length.
C28_SnippetCoversSegmentWithinBudget ==
    SnippetWithinDocument =>
        /\ exc = "none"
        /\ \E a \in 0..BoundStart(op.spans), b \in BoundEnd(op.spans)..Len(op.text) :
              /\ (BoundStart(op.spans) - a) + (b - BoundEnd(op.spans))
                    <= op.max_extend_length
              /\ ret = [i \in 1..(b - a) |-> op.text[a + i]]

\* A snippet that extends the segment on both sides and uses the whole
\* budget.
C28_Witness ==
    /\ SnippetWithinDocument
    /\ exc = "none"
    /\ op.max_extend_length > 0
    /\ \E a \in 0..(BoundStart(op.spans) - 1),
          b \in (BoundEnd(op.spans) + 1)..Len(op.text) :
          /\ (BoundStart(op.spans) - a) + (b - BoundEnd(op.spans))
                = op.max_extend_length
          /\ ret = [i \in 1..(b - a) |-> op.text[a + i]]

\* C29: with keep_separator = True the character ranges extracted from one
\* segment are non-empty, ascending and contiguous: every syntagma after the
\* first starts where the syntagma yielded before it ended, at the start of
\* the separator that closed it; no character between the first start and
\* the last end is dropped or covered twice, also when whitespace-only
\* matches are skipped.
C29_SyntagmasContiguous ==
    (op.name = "find_syntagmas" /\ op.keep_separator) =>
        /\ exc = "none"
        /\ \A i \in 1..Len(ret) :
              /\ 0 <= ret[i].range[1]
              /\ ret[i].range[1] < ret[i].range[2]
              /\ ret[i].range[2] <= Len(op.segment.text)
              /\ ret[i].text = Slice(op.segment.text, ret[i].range[1], ret[i].range[2])
              /\ ret[i].spans = <<Span(ret[i].range[1], ret[i].range[2])>>
              /\ i > 1 => ret[i].range[1] = ret[i - 1].range[2]
              /\ i > 1 => \E n \in 1..Len(op.separators) :
                             SubSeq(ret[i].text, 1, Len(op.separators[n]))
                                = op.separators[n]

\* Two syntagmas were yielded around a whitespace-only match that was
\* skipped: the second begins where the first ended and covers the skipped
\* match.
C29_Witness ==
    /\ op.name = "find_syntagmas"
    /\ op.keep_separator
    /\ exc = "none"
    /\ Len(ret) >= 2
    /\ ret[2].range[1] = ret[1].range[2]
    /\ LET matches == FindIter(op.segment.text, 0, op.separators)
       IN  \E k \in 1..Len(matches) :
              /\ ret[1].range[2] < matches[k].syntagma_start
              /\ matches[k].end < ret[2].range[2]
              /\ \A i \in (matches[k].syntagma_start + 1)..matches[k].syntagma_end :
                    op.segment.text[i] \in {" ", "\t"}

\* C30: after any sequence of item assignments (batch[key] = v) and
\* attribute assignments (batch.key = v, for any v, None included), for every
\* key batch[key] equals batch.key; to_device returns a new BatchData with
\* the same keys in the same order.
C30_BatchItemEqualsAttribute ==
    objs # <<>> =>
        /\ \A key \in DOMAIN objs[1].items :
              BatchGetItem(objs[1], key) = BatchGetAttr(objs[1], key)
        /\ op.name = "batch_to_device" => ret.keys = objs[1].keys

====
